---- MODULE Spec2Model ----
(***************************************************************************)
(* The PDF resolution engine of src/pdf_extractor.py: PDFExtractor's       *)
(* strategy chain (find_pdf_for_paper), its validator, and the batch run   *)
(* process_papers_file with its thread pool and its statistics.            *)
(***************************************************************************)
EXTENDS Integers, Sequences, FiniteSets, TLC

\* ------------------------------------------------------------------ bounds
MaxPapers == 2        \* longest worklist of the batch specification
MaxWorkers == 2       \* largest max_workers a run is started with
MaxResults == 2       \* most results a search backend returns in one response
MaxRuns == 2          \* most calls of process_papers_file on one PDFExtractor
TicksPerSecond == 2   \* resolution of the clock: ticks in one second
MaxTicks == 4         \* how many ticks the clock advances in a run of the limiter
MaxChannels == 2      \* how many of the call sites of rate_limit the threads call from
MaxTitleLen == 3
MaxRetry == 2          \* the retry argument of grobid_process
MaxPdfBytes == 2       \* the length of a PDF file
MaxPdfs == 2           \* the number of PDFs in PDF_DIR      \* longest title of the enumerated ones, in characters

\* ------------------------------------------------------- program constants
BatchLimit == 100     \* papers_without_pdfs[:100]
NumMethods == 4       \* len(search_methods)
HTTP_OK == 200        \* response.status_code == 200
request_delay == 1    \* self.request_delay = 1, in seconds

\* ------------------------------------------------------------------- values
None == "None"                         \* Python's None
NoLink == "NoLink"                     \* a result that carries no document link
NoExc == "none"                        \* a call that raised nothing
Raised == "raised"                     \* a call that raised an exception

\* Python truthiness of an Optional[str]: None and "" are falsy.
Truthy(x) == x # None /\ x # ""

PdfUrl == "http://host/paper.pdf"      \* a URL that ends in .pdf
ViewUrl == "http://host/view?id=1"     \* a URL that does not
HaveUrl == "http://host/have.pdf"      \* a document URL present on input
DoiUrl == "https://doi.org/10.1145/3345678"
DoiQueryUrl == "https://doi.org/10.1145/3345678?x=1"   \* a DOI, then a query
ShortDoiUrl == "https://doi.org/10.123/45"             \* three registrant digits
SpacedDoiUrl == "doi 10.1145/3345678 (pdf)"            \* a DOI between blanks

UpperUrl == "http://host/PAPER.PDF"         \* the extension in capitals
QueryUrl == "http://host/paper.pdf?dl=1"    \* a path that ends in .pdf, then a query
FragmentUrl == "http://host/paper.pdf#page=2"   \* the same, then a fragment
NamedUrl == "http://host/get?file=a.pdf"    \* a query that ends in .pdf

CandidateUrls == {PdfUrl, ViewUrl}

\* The text of the URLs of the model, character by character.
Spelling ==
    "" :> <<>> @@
    DoiQueryUrl :>
      <<"h", "t", "t", "p", "s", ":", "/", "/", "d", "o", "i", ".", "o", "r", "g", "/",
        "1", "0", ".", "1", "1", "4", "5", "/", "3", "3", "4", "5", "6", "7", "8", "?",
        "x", "=", "1">> @@
    ShortDoiUrl :>
      <<"h", "t", "t", "p", "s", ":", "/", "/", "d", "o", "i", ".", "o", "r", "g", "/",
        "1", "0", ".", "1", "2", "3", "/", "4", "5">> @@
    SpacedDoiUrl :>
      <<"d", "o", "i", " ", "1", "0", ".", "1", "1", "4", "5", "/", "3", "3", "4", "5",
        "6", "7", "8", " ", "(", "p", "d", "f", ")">> @@
    PdfUrl :>
      <<"h", "t", "t", "p", ":", "/", "/", "h", "o", "s", "t", "/", "p", "a", "p", "e",
        "r", ".", "p", "d", "f">> @@
    ViewUrl :>
      <<"h", "t", "t", "p", ":", "/", "/", "h", "o", "s", "t", "/", "v", "i", "e", "w",
        "?", "i", "d", "=", "1">> @@
    HaveUrl :>
      <<"h", "t", "t", "p", ":", "/", "/", "h", "o", "s", "t", "/", "h", "a", "v", "e",
        ".", "p", "d", "f">> @@
    DoiUrl :>
      <<"h", "t", "t", "p", "s", ":", "/", "/", "d", "o", "i", ".", "o", "r", "g", "/",
        "1", "0", ".", "1", "1", "4", "5", "/", "3", "3", "4", "5", "6", "7", "8">> @@
    UpperUrl :>
      <<"h", "t", "t", "p", ":", "/", "/", "h", "o", "s", "t", "/", "P", "A", "P", "E",
        "R", ".", "P", "D", "F">> @@
    QueryUrl :>
      <<"h", "t", "t", "p", ":", "/", "/", "h", "o", "s", "t", "/", "p", "a", "p", "e",
        "r", ".", "p", "d", "f", "?", "d", "l", "=", "1">> @@
    FragmentUrl :>
      <<"h", "t", "t", "p", ":", "/", "/", "h", "o", "s", "t", "/", "p", "a", "p", "e",
        "r", ".", "p", "d", "f", "#", "p", "a", "g", "e", "=", "2">> @@
    NamedUrl :>
      <<"h", "t", "t", "p", ":", "/", "/", "h", "o", "s", "t", "/", "g", "e", "t", "?",
        "f", "i", "l", "e", "=", "a", ".", "p", "d", "f">>

\* A str is a sequence of characters, a character a string of length one.
Whitespace == {" ", "\t"}

\* The letters of the model that have two cases.
UpperCase == <<"A", "B", "C", "D", "E", "F", "G", "P", "R">>
LowerCase == <<"a", "b", "c", "d", "e", "f", "g", "p", "r">>

\* Variant of LowerChar: case is left as it is.
LowerCharIdentity(c) == c

\* str.lower() on one character.
LowerChar(c) ==
    IF \E k \in 1..Len(UpperCase) : UpperCase[k] = c
    THEN LowerCase[CHOOSE k \in 1..Len(UpperCase) : UpperCase[k] = c]
    ELSE c

\* str.lower()
lower(s) == [k \in 1..Len(s) |-> LowerChar(s[k])]

\* s.endswith(suffix)
EndsWith(s, suffix) ==
    /\ Len(suffix) <= Len(s)
    /\ SubSeq(s, Len(s) - Len(suffix) + 1, Len(s)) = suffix

DotPdf == <<".", "p", "d", "f">>

\* url.lower().endswith('.pdf')
EndsWithPdf(url) ==
    EndsWith(lower(Spelling[url]), DotPdf)

Digits == {"0", "1", "2", "3", "4", "5", "6", "7", "8", "9"}

\* The number of characters of s from position k on, up to the first one that is
\* not in (or, with inside = FALSE, that is in) the class: what a greedy
\* \d* or [^\s]* consumes there.
Run(s, k, class, inside) ==
    CHOOSE n \in 0..(IF k > Len(s) THEN 0 ELSE Len(s) - k + 1) :
        /\ \A j \in k..(k + n - 1) : (s[j] \in class) = inside
        /\ k + n <= Len(s) => (s[k + n] \in class) # inside

\* The least number of digits \d{4,} accepts.
MinRegistrantDigits == 4

\* Where a match of r'10\.\d{4,}/[^\s]+' that starts at position k of s ends,
\* 0 when none starts there. The digits are taken greedily, and giving some
\* back never helps: what follows a shorter run is a digit, not the "/".
MatchEnd(s, k) ==
    IF k + 2 > Len(s) THEN 0
    ELSE LET d == Run(s, k + 3, Digits, TRUE)
             slash == k + 3 + d
             rest == Run(s, slash + 1, Whitespace, FALSE)
         IN IF /\ s[k] = "1" /\ s[k + 1] = "0" /\ s[k + 2] = "."
               /\ d >= MinRegistrantDigits
               /\ slash <= Len(s) /\ s[slash] = "/"
               /\ rest >= 1
            THEN slash + rest
            ELSE 0

\* re.search(doi_pattern, paper_url).group(): the leftmost match, <<>> when
\* re.search returns None.
doi_match(s) ==
    IF \E k \in 1..Len(s) : MatchEnd(s, k) > 0
    THEN LET k == CHOOSE a \in 1..Len(s) :
                    /\ MatchEnd(s, a) > 0
                    /\ \A b \in 1..(a - 1) : MatchEnd(s, b) = 0
         IN SubSeq(s, k, MatchEnd(s, k))
    ELSE <<>>

\* doi_match.group() for each URL of the model.
DoiOf == [url \in DOMAIN Spelling |-> doi_match(Spelling[url])]

\* "if doi_match:"
HasDoi(url) == DoiOf[url] # <<>>

Min(a, b) == IF a <= b THEN a ELSE b

Range(f) == {f[x] : x \in DOMAIN f}

\* ------------------------------------------------------------ the worklist
\* Records of the input file (json.load). The "pdf" key is optional: the
\* dataclass gives it the default None.
CitNoKey == [title |-> "t1", year |-> 2018, venue |-> "v1", url |-> "", citations |-> 5]
CitEmpty == [title |-> "t2", year |-> 2019, venue |-> "v2", url |-> DoiUrl, citations |-> 7,
             pdf |-> ""]
CitNull == [title |-> "t3", year |-> 2020, venue |-> "v3", url |-> DoiUrl, citations |-> 0,
            pdf |-> None]
CitHave == [title |-> "t4", year |-> 2021, venue |-> "v4", url |-> "", citations |-> 9,
            pdf |-> HaveUrl]

BatchCitations == {CitNoKey, CitEmpty, CitHave}
AllCitations == {CitNoKey, CitEmpty, CitNull, CitHave}

\* A record with a key the dataclass does not have.
CitExtraKey == [title |-> "t5", year |-> 2022, venue |-> "v5", url |-> "", citations |-> 1,
                doi |-> "x"]

\* The fields of the dataclass Paper, and those without a default.
PaperFields == {"title", "year", "venue", "url", "citations", "pdf"}
RequiredFields == {"title", "year", "venue", "url", "citations"}

\* Paper(**paper_data) raises no TypeError: no unexpected key, no missing one.
Convertible(d) == DOMAIN d \subseteq PaperFields /\ RequiredFields \subseteq DOMAIN d

\* Paper(**paper_data)
Paper(d) ==
    [title |-> d.title, year |-> d.year, venue |-> d.venue, url |-> d.url,
     citations |-> d.citations,
     pdf |-> IF "pdf" \in DOMAIN d THEN d.pdf ELSE None]

\* --------------------------------------------------------------- variables
VARIABLES
    world,        \* "open": the network answers anything; "scripted": by ScriptedSearch
    file_state,   \* the input file: "readable" | "missing" | "corrupt" (not JSON)
    input,        \* the records of the input file
    max_workers,  \* the max_workers argument
    phase,        \* "new" | "run" | "done" | "raised" (process_papers_file),
                  \* "direct" (a direct call)
    papers,       \* the list papers (Paper objects; paper.pdf is mutable)
    todo,         \* papers_without_pdfs, as indices into papers
    futs,         \* future_to_paper in submission order: the futures and their papers
    queue,        \* the executor's work queue: the pending futures, oldest first
    yielded,      \* the futures as_completed has yielded so far, in that order
    stats,        \* self.stats
    output,       \* the records written to output_file (<<>> until written)
    pc,           \* per worker thread: "idle" | "start" | "loop" | "validate"
    cur,          \* per worker thread: the future it is running (0: none)
    meth,         \* per worker thread: index of the search method of this iteration
    cand,         \* per worker thread: pdf_url of this iteration
    traced,       \* the future whose call is recorded in hist (0: none)
    hist,         \* history of the traced call of find_pdf_for_paper
    seen,         \* history: the futures whose call got a candidate from some method
    run,          \* how many times process_papers_file was called on this PDFExtractor
    clock,        \* what time.time() returns now, in ticks
    last_request_time,  \* self.last_request_time, in ticks
    stamped_by,   \* history: the call that wrote last_request_time, its channel and thread
    rl,           \* per thread: its position in rate_limit, with its locals
    returned_at,  \* history, per thread: when its last call of rate_limit returned (0: never)
    tcall,        \* a call of titles_similar: its arguments and its result
    vcall,        \* a call of validate_pdf_url: its argument, the probe and its result
    gcall,        \* a title passed through a search method's similarity test
    gp,           \* a call of grobid_process (Reference_Extractor.py)
    rx,           \* a run of main (Reference_Extractor.py)
    scall         \* a call of a strategy: the method, the backend's answer and its result

\* The state of process_papers_file, of its pool and of the calls it makes.
batchVars == <<world, file_state, input, max_workers, phase, papers, todo, futs, queue,
               yielded, stats, output, pc, cur, meth, cand, traced, hist, seen, run>>

\* The state of the rate limiter and of the threads inside rate_limit.
rateVars == <<clock, last_request_time, stamped_by, rl, returned_at>>

\* The calls of the functions studied on their own.
\* The state of Reference_Extractor.py.
refVars == <<gp, rx>>

callVars == <<tcall, vcall, gcall, scall, refVars>>

vars == <<batchVars, rateVars, callVars>>

WorkerIds == 1..MaxWorkers

\* ------------------------------------------------------ the network, as data
\* One result of a search response: does its reported title pass titles_similar
\* against the cleaned query title, and which document link does it carry
\* (NoLink: none; "": a document-typed link whose URL is empty or missing).
Links == {NoLink, ""} \cup CandidateUrls
Results == [sim : BOOLEAN, link : Links]

ResultLists == UNION {[1..n -> Results] : n \in 0..MaxResults}

\* What session.get gives a search strategy: an exception (transport error,
\* timeout), or a response with a status and a body that parses or does not.
SearchResponses ==
    {[kind |-> "exception", status |-> 0, parsed |-> FALSE, results |-> <<>>],
     [kind |-> "http", status |-> 404, parsed |-> FALSE, results |-> <<>>],
     [kind |-> "http", status |-> HTTP_OK, parsed |-> FALSE, results |-> <<>>]}
    \cup {[kind |-> "http", status |-> HTTP_OK, parsed |-> TRUE, results |-> r] :
            r \in ResultLists}

\* What session.get gives resolve_doi_to_pdf: the Unpaywall record has is_oa and
\* best_oa_location (NoLink: absent) with its url_for_pdf; sim tells whether the
\* title the record reports would pass titles_similar against the citation's.
DoiResponses ==
    {[kind |-> "exception", status |-> 0, parsed |-> FALSE, is_oa |-> FALSE, loc |-> NoLink,
      sim |-> FALSE],
     [kind |-> "http", status |-> 404, parsed |-> FALSE, is_oa |-> FALSE, loc |-> NoLink,
      sim |-> FALSE],
     [kind |-> "http", status |-> HTTP_OK, parsed |-> FALSE, is_oa |-> FALSE, loc |-> NoLink,
      sim |-> FALSE]}
    \cup {[kind |-> "http", status |-> HTTP_OK, parsed |-> TRUE, is_oa |-> o, loc |-> l,
           sim |-> t] :
            o \in BOOLEAN, l \in Links, t \in BOOLEAN}

\* What session.head gives validate_pdf_url.
ProbeResponses ==
    {[kind |-> "exception", status |-> 0, ctype |-> ""]}
    \cup [kind : {"http"}, status : {HTTP_OK, 206, 404},
          ctype : {"application/pdf", "text/html", ""}]

\* 'pdf' in content_type
PdfInContentType(ctype) == ctype = "application/pdf"

\* ---------------------------------------------------------- the strategies
\* search_semantic_scholar's loop over data['data']: the first similar result
\* with a non-empty openAccessPdf url.
RECURSIVE SemanticScholarPick(_)
SemanticScholarPick(rs) ==
    IF rs = <<>> THEN None
    ELSE IF Head(rs).sim /\ Head(rs).link # NoLink /\ Truthy(Head(rs).link)
         THEN Head(rs).link
         ELSE SemanticScholarPick(Tail(rs))

\* search_arxiv's and search_crossref's loops: the first similar result that has
\* a link typed application/pdf; its URL is returned as it is.
RECURSIVE TypedLinkPick(_)
TypedLinkPick(rs) ==
    IF rs = <<>> THEN None
    ELSE IF Head(rs).sim /\ Head(rs).link # NoLink
         THEN Head(rs).link
         ELSE TypedLinkPick(Tail(rs))

\* The try/except of each strategy: anything but a parsed 200 response is None.
Answered(resp) == resp.kind = "http" /\ resp.status = HTTP_OK /\ resp.parsed

\* The try block of a strategy raises: session.get does (transport error,
\* timeout), or the body of a 200 response does not parse (response.json(),
\* ET.fromstring).
BodyRaises(resp) == resp.kind = "exception" \/ (resp.status = HTTP_OK /\ ~resp.parsed)

\* Variant of ExceptReturn: the strategy has no handler, the exception leaves it.
ExceptReraise(e) == e

\* "except Exception as e: logger.warning(...)", then "return None".
ExceptReturn(e) == None

search_semantic_scholar(resp) ==
    IF BodyRaises(resp) THEN ExceptReturn(Raised)
    ELSE IF Answered(resp) THEN SemanticScholarPick(resp.results) ELSE None

search_arxiv(resp) ==
    IF BodyRaises(resp) THEN ExceptReturn(Raised)
    ELSE IF Answered(resp) THEN TypedLinkPick(resp.results) ELSE None

search_crossref(resp) ==
    IF BodyRaises(resp) THEN ExceptReturn(Raised)
    ELSE IF Answered(resp) THEN TypedLinkPick(resp.results) ELSE None

\* resolve_doi_to_pdf once a DOI was found in paper_url and the request made.
resolve_doi_to_pdf(resp) ==
    IF BodyRaises(resp) THEN ExceptReturn(Raised)
    ELSE IF Answered(resp) /\ resp.is_oa /\ resp.loc # NoLink /\ Truthy(resp.loc)
         THEN resp.loc ELSE None

\* validate_pdf_url on the probe's answer.
validate_pdf_url(url, probe) ==
    IF probe.kind = "exception" THEN FALSE
    ELSE IF PdfInContentType(probe.ctype) \/ EndsWithPdf(url)
         THEN probe.status = HTTP_OK
         ELSE FALSE

\* Variant of ProbeExcept: no handler, the exception leaves validate_pdf_url.
ProbeExceptReraise(e) == e

\* "except Exception as e:" of validate_pdf_url: logs, and nothing is raised.
ProbeExcept(e) == NoExc

\* What leaves validate_pdf_url as an exception.
ValidateException(probe) ==
    IF probe.kind = "exception" THEN ProbeExcept(Raised) ELSE NoExc

\* search_methods[i - 1] makes a request: the first three always, the DOI
\* lookup only when paper.url holds a DOI.
MakesRequest(i, p) == i < NumMethods \/ HasDoi(p.url)

\* What a search method calls, in order, before it reads the response:
\* self.rate_limit(), then self.session.get(...).
SearchCalls == <<"rate_limit", "request">>

\* Variant of DoiCalls: the wait and the request are made whatever the URL.
DoiCallsUnconditional(url) == SearchCalls

\* What resolve_doi_to_pdf calls: both calls are inside "if doi_match:".
DoiCalls(url) == IF HasDoi(url) THEN <<"rate_limit", "request">> ELSE <<>>

\* What search_methods[i - 1] calls for a paper with this url.
StrategyCalls(i, url) == IF i < NumMethods THEN SearchCalls ELSE DoiCalls(url)

\* Variant of ValidateCalls: the probe is sent twice.
ValidateCallsTwice == <<"rate_limit", "request", "rate_limit", "request">>

\* Variant of ValidateCalls: the probe is sent without waiting.
ValidateCallsUnthrottled == <<"request">>

\* What validate_pdf_url calls: self.rate_limit(), then self.session.head(...).
ValidateCalls == <<"rate_limit", "request">>

\* The DOI put in unpaywall_url, <<>> when no request is made.
UnpaywallDoi(i, url) == IF i = NumMethods /\ HasDoi(url) THEN DoiOf[url] ELSE <<>>

\* The scripted world: Semantic Scholar knows the paper titled "t1" and nothing
\* else is reachable.
ScriptedSearch(i, p) ==
    IF i = 1 /\ p.title = "t1"
    THEN [kind |-> "http", status |-> HTTP_OK, parsed |-> TRUE,
          results |-> <<[sim |-> TRUE, link |-> PdfUrl]>>]
    ELSE [kind |-> "exception", status |-> 0, parsed |-> FALSE, results |-> <<>>]

\* search_methods[i - 1] for i = 1..3, applied to the backend's answer.
SearchMethod(i, resp) ==
    CASE i = 1 -> search_semantic_scholar(resp)
      [] i = 2 -> search_arxiv(resp)
      [] OTHER -> search_crossref(resp)

\* The values search_methods[i - 1](paper.title, paper.year) can return.
MethodValues(i, p) ==
    IF ~MakesRequest(i, p) THEN {None}
    ELSE IF i < NumMethods
         THEN {SearchMethod(i, r) :
                 r \in IF world = "scripted" THEN {ScriptedSearch(i, p)} ELSE SearchResponses}
         ELSE {resolve_doi_to_pdf(r) :
                 r \in IF world = "scripted" THEN {CHOOSE x \in DoiResponses : x.kind = "exception"}
                       ELSE DoiResponses}

\* The probes validate_pdf_url can get.
Probes == IF world = "scripted"
          THEN {[kind |-> "http", status |-> HTTP_OK, ctype |-> "application/pdf"]}
          ELSE ProbeResponses

\* Whether a call can fail in a way its own handlers do not cover.
Unexpected == IF world = "scripted" THEN {FALSE} ELSE BOOLEAN

\* What a call made inside the loop's try can come to: a returned value, or
\* Raised for whatever escapes the callee.
Outcomes(values) == values \cup {Raised : x \in Unexpected \ {FALSE}}

\* ------------------------------------------------------- find_pdf_for_paper
\* Variant of Threads: the pool starts no thread.
ThreadsNone == {}

\* Variant of Threads: the pool starts a thread per work item, whatever max_workers.
ThreadsUnbounded == WorkerIds

\* The threads the pool may start: ThreadPoolExecutor(max_workers=max_workers).
Threads == 1..max_workers

coordVars == <<world, file_state, input, max_workers, phase, papers, todo, yielded, stats,
               output, traced, run, rateVars, callVars>>

NoHist == [events |-> <<>>, nrl |-> 0, nnet |-> 0, calls |-> <<>>]

\* The paper of the call that worker w runs.
PaperOf(w) == papers[futs[cur[w]].paper]

\* The call of worker w ends: its future gets the result, or the exception.
Finish(w, result, exc) ==
    /\ futs' = [futs EXCEPT ![cur[w]] =
                  [@ EXCEPT !.state = "finished", !.result = result, !.exception = exc]]
    /\ pc' = [pc EXCEPT ![w] = "idle"]
    /\ cur' = [cur EXCEPT ![w] = 0]
    /\ meth' = [meth EXCEPT ![w] = 0]
    /\ cand' = [cand EXCEPT ![w] = None]

\* The for loop moves on: the next method, or past the loop to "return None".
Advance(w) ==
    IF meth[w] < NumMethods
    THEN /\ meth' = [meth EXCEPT ![w] = @ + 1]
         /\ pc' = [pc EXCEPT ![w] = "loop"]
         /\ cand' = [cand EXCEPT ![w] = None]
         /\ UNCHANGED <<futs, cur>>
    ELSE Finish(w, None, NoExc)

\* Variant of AlreadyHasPdf: the short-circuit is missing.
AlreadyHasPdfNever(p) == FALSE

\* "if paper.pdf:"
AlreadyHasPdf(p) == Truthy(p.pdf)

\* Variant of OnRaise: no handler around the body of the loop, the exception
\* leaves find_pdf_for_paper.
OnRaisePropagate(w, origin) == Finish(w, None, origin)

\* Variant of OnRaise: the handler gives up, find_pdf_for_paper returns None.
OnRaiseGiveUp(w, origin) == Finish(w, None, NoExc)

\* "except Exception as e: ... continue" around the body of the loop.
OnRaise(w, origin) == Advance(w)

\* Variant of AfterValidate: the candidate is returned whatever the validator said.
AfterValidateUnchecked(w, ok) == Finish(w, cand[w], NoExc)

\* Variant of AfterValidate: an accepted candidate does not end the loop.
AfterValidateContinue(w, ok) == Advance(w)

\* "if self.validate_pdf_url(pdf_url): return pdf_url", else the next iteration.
AfterValidate(w, ok) ==
    IF ok THEN Finish(w, cand[w], NoExc) ELSE Advance(w)

\* A pool thread takes the oldest work item of the queue and calls
\* find_pdf_for_paper. The threads are interchangeable: of the idle ones the
\* lowest-numbered is the one that takes it.
WorkerTake(w) ==
    /\ w \in Threads
    /\ pc[w] = "idle"
    /\ \A v \in 1..(w - 1) : pc[v] # "idle"
    /\ queue # <<>>
    /\ queue' = Tail(queue)
    /\ futs' = [futs EXCEPT ![Head(queue)].state = "running"]
    /\ cur' = [cur EXCEPT ![w] = Head(queue)]
    /\ pc' = [pc EXCEPT ![w] = "start"]
    /\ UNCHANGED <<meth, cand, hist, seen>>
    /\ UNCHANGED coordVars

\* Entry of find_pdf_for_paper: the short-circuit, else the list of methods is
\* built and the loop begins. What fails here is outside the loop's try.
FindStart(w) ==
    /\ pc[w] = "start"
    /\ \E fault \in Unexpected :
         IF AlreadyHasPdf(PaperOf(w))
         THEN Finish(w, PaperOf(w).pdf, NoExc)
         ELSE IF fault
              THEN Finish(w, None, "entry")
              ELSE /\ pc' = [pc EXCEPT ![w] = "loop"]
                   /\ meth' = [meth EXCEPT ![w] = 1]
                   /\ UNCHANGED <<futs, cur, cand>>
    /\ UNCHANGED <<hist, seen>>
    /\ UNCHANGED <<coordVars, queue>>

\* One iteration up to "if pdf_url:": the method is called (its rate_limit and
\* its request included) and returns a value, or something escapes it.
TryStrategy(w) ==
    /\ pc[w] = "loop"
    /\ LET i == meth[w]
           p == PaperOf(w)
           n == IF MakesRequest(i, p) THEN 1 ELSE 0
       IN \E v \in Outcomes(MethodValues(i, p)) :
            /\ hist' = IF cur[w] # traced THEN hist
                       ELSE [events |-> Append(hist.events,
                                               [m |-> i, value |-> v, ok |-> "-"]),
                             nrl |-> hist.nrl + n,
                             nnet |-> hist.nnet + n,
                             calls |-> hist.calls \o StrategyCalls(i, p.url)]
            /\ seen' = IF v # Raised /\ Truthy(v) THEN seen \cup {cur[w]} ELSE seen
            /\ IF v = Raised THEN OnRaise(w, "method")
               ELSE IF Truthy(v)
                    THEN /\ pc' = [pc EXCEPT ![w] = "validate"]
                         /\ cand' = [cand EXCEPT ![w] = v]
                         /\ UNCHANGED <<futs, cur, meth>>
                    ELSE Advance(w)
    /\ UNCHANGED <<coordVars, queue>>

\* The rest of the iteration: validate_pdf_url(pdf_url) (its rate_limit and its
\* HEAD request included), then return or continue.
Validate(w) ==
    /\ pc[w] = "validate"
    /\ \E r \in Outcomes({IF validate_pdf_url(cand[w], probe) THEN "yes" ELSE "no" :
                              probe \in Probes}) :
         LET n == Len(hist.events)
         IN /\ hist' = IF cur[w] # traced THEN hist
                       ELSE [events |-> [hist.events EXCEPT ![n].ok = r],
                             nrl |-> hist.nrl + 1,
                             nnet |-> hist.nnet + 1,
                             calls |-> hist.calls \o ValidateCalls]
            /\ IF r = Raised THEN OnRaise(w, "validate") ELSE AfterValidate(w, r = "yes")
    /\ UNCHANGED seen
    /\ UNCHANGED <<coordVars, queue>>

\* ------------------------------------------------------------ titles_similar
\* str.split() with no separator: the runs of non-whitespace characters, as a
\* set; "word" is the run being read.
RECURSIVE SplitFrom(_, _)
SplitFrom(s, word) ==
    IF s = <<>>
    THEN IF word = <<>> THEN {} ELSE {word}
    ELSE IF Head(s) \in Whitespace
         THEN (IF word = <<>> THEN {} ELSE {word}) \cup SplitFrom(Tail(s), <<>>)
         ELSE SplitFrom(Tail(s), Append(word, Head(s)))

\* set(title.lower().split())
words(title) == SplitFrom(lower(title), <<>>)

\* Variant of UnionSize: the size of the first set stands for the union's.
UnionSizeLeftOnly(words1, words2) == Cardinality(words1)

\* len(words1.union(words2))
UnionSize(words1, words2) == Cardinality(words1 \cup words2)

\* Variant of Meets: the threshold itself is not enough.
MeetsStrictly(intersection, union, threshold) ==
    IF union > 0
    THEN intersection * threshold.den > threshold.num * union
    ELSE 0 > threshold.num

\* "similarity = intersection / union if union > 0 else 0" and
\* "similarity >= threshold", the threshold being the fraction num / den. The
\* quotient of two small integers and the literal of the same fraction round to
\* the same float, so the comparison is the one of the fractions.
Meets(intersection, union, threshold) ==
    IF union > 0
    THEN intersection * threshold.den >= threshold.num * union
    ELSE 0 >= threshold.num

titles_similar(title1, title2, threshold) ==
    LET words1 == words(title1)
        words2 == words(title2)
    IN IF Cardinality(words1) = 0 \/ Cardinality(words2) = 0
       THEN FALSE
       ELSE Meets(Cardinality(words1 \cap words2), UnionSize(words1, words2), threshold)

\* threshold: float = 0.7
DefaultThreshold == [num |-> 7, den |-> 10]

Thresholds == {[num |-> 1, den |-> 2], DefaultThreshold, [num |-> 1, den |-> 1],
               [num |-> 3, den |-> 2]}

\* The titles compared: every string of at most MaxTitleLen characters over a
\* small alphabet, and two long ones that share seven words of ten.
TitleAlphabet == {"a", "A", "b", " "}
ShortTitles == UNION {[1..n -> TitleAlphabet] : n \in 0..MaxTitleLen}
EightWords == <<"a", " ", "b", " ", "c", " ", "d", " ", "e", " ", "f", " ", "g", " ", "x">>
NineWords == <<"A", " ", "B", " ", "C", "\t", "D", " ", "E", " ", "F", " ", "G", " ", "y",
               " ", "z", " ">>
Titles == ShortTitles \cup {EightWords, NineWords}

\* No call of titles_similar is under study.
NoTitlesCall == [title1 |-> <<>>, title2 |-> <<>>, threshold |-> DefaultThreshold,
                 returned |-> FALSE, result |-> FALSE]

\* titles_similar(title1, title2, threshold) is called and returns.
CallTitlesSimilar ==
    /\ ~tcall.returned
    /\ tcall' = [tcall EXCEPT !.returned = TRUE,
                               !.result = titles_similar(tcall.title1, tcall.title2,
                                                         tcall.threshold)]
    /\ UNCHANGED <<vcall, gcall, scall>>
    /\ UNCHANGED <<batchVars, rateVars, refVars>>

\* ------------------------------------------- validate_pdf_url, on its own
\* The URLs validate_pdf_url is called with.
ProbeUrls == {PdfUrl, ViewUrl, HaveUrl, DoiUrl, UpperUrl, QueryUrl, FragmentUrl, NamedUrl}

\* No call of validate_pdf_url is under study.
NoValidateCall == [url |-> PdfUrl, probe |-> CHOOSE x \in ProbeResponses : x.kind = "exception",
                   returned |-> FALSE, result |-> FALSE, exc |-> NoExc]

\* validate_pdf_url(url) is called, its HEAD request is answered, and it returns.
CallValidate ==
    /\ ~vcall.returned
    /\ vcall' = [vcall EXCEPT !.returned = TRUE,
                               !.result = validate_pdf_url(vcall.url, vcall.probe),
                               !.exc = ValidateException(vcall.probe)]
    /\ UNCHANGED <<tcall, gcall, scall>>
    /\ UNCHANGED <<batchVars, rateVars, refVars>>

\* ------------------------------------------------- the strategies, on their own
\* What search_methods[m - 1] returns for a paper with this url, the backend
\* answering resp.
StrategyResult(m, url, resp) ==
    IF m < NumMethods THEN SearchMethod(m, resp)
    ELSE IF HasDoi(url) THEN resolve_doi_to_pdf(resp) ELSE None

\* No call of a strategy is under study.
NoStrategyCall == [m |-> 1, url |-> "", resp |-> CHOOSE x \in SearchResponses : x.kind = "exception",
                   returned |-> FALSE, result |-> None, calls |-> <<>>, doi |-> <<>>]

\* The source URLs a strategy is called with.
SourceUrls == {"", DoiUrl, DoiQueryUrl, ShortDoiUrl, SpacedDoiUrl}

\* A strategy is called, its request is answered, and it returns or raises.
CallStrategy ==
    /\ ~scall.returned
    /\ scall' = [scall EXCEPT !.returned = TRUE,
                               !.result = StrategyResult(scall.m, scall.url, scall.resp),
                               !.calls = StrategyCalls(scall.m, scall.url),
                               !.doi = UnpaywallDoi(scall.m, scall.url)]
    /\ UNCHANGED <<tcall, vcall, gcall>>
    /\ UNCHANGED <<batchVars, rateVars, refVars>>

\* --------------------------------------- the similarity test of the searches
\* The characters \w matches, among those of the model.
WordChars ==
    {"a", "b", "c", "d", "e", "f", "g", "h", "i", "j", "k", "l", "m", "n", "o", "p", "q",
     "r", "s", "t", "u", "v", "w", "x", "y", "z",
     "A", "B", "C", "D", "E", "F", "G", "H", "I", "J", "K", "L", "M", "N", "O", "P", "Q",
     "R", "S", "T", "U", "V", "W", "X", "Y", "Z", "_"} \cup Digits

\* re.sub(r'[^\w\s-]', '', title)
RemoveSpecial(title) ==
    SelectSeq(title, LAMBDA c : c \in WordChars \cup Whitespace \cup {"-"})

\* re.sub(r'\s+', ' ', title): each run of whitespace becomes one blank.
RECURSIVE CollapseBlanks(_, _)
CollapseBlanks(s, in_run) ==
    IF s = <<>> THEN <<>>
    ELSE IF Head(s) \in Whitespace
         THEN (IF in_run THEN <<>> ELSE <<" ">>) \o CollapseBlanks(Tail(s), TRUE)
         ELSE <<Head(s)>> \o CollapseBlanks(Tail(s), FALSE)

\* str.strip() of a text whose whitespace runs are single blanks.
Strip(s) ==
    LET from == IF s # <<>> /\ Head(s) \in Whitespace THEN 2 ELSE 1
        to == IF s # <<>> /\ s[Len(s)] \in Whitespace THEN Len(s) - 1 ELSE Len(s)
    IN SubSeq(s, from, to)

\* clean_title_for_search(title)
clean_title_for_search(title) == Strip(CollapseBlanks(RemoveSpecial(title), FALSE))

\* The test a search method makes on a result: the title the backend reports,
\* lowered, against the cleaned title of the citation, lowered.
SimilarityGate(title, reported) ==
    titles_similar(lower(reported), lower(clean_title_for_search(title)), DefaultThreshold)

\* Titles with punctuation, a hyphen and blanks.
GateAlphabet == {"a", "B", " ", ":", "-"}
GateTitles == UNION {[1..n -> GateAlphabet] : n \in 0..MaxTitleLen}

\* No similarity test is under study.
NoGateCall == [title |-> <<>>, reported |-> <<>>, returned |-> FALSE, result |-> FALSE]

\* A search method tests one result of the backend.
CallGate ==
    /\ ~gcall.returned
    /\ gcall' = [gcall EXCEPT !.returned = TRUE,
                               !.result = SimilarityGate(gcall.title, gcall.reported)]
    /\ UNCHANGED <<tcall, vcall, scall>>
    /\ UNCHANGED <<batchVars, rateVars, refVars>>

\* ------------------------------------------------------------ grobid_process
\* retry=3
DefaultRetry == 3

\* The status requests reports for a success, and one for a failure.
GROBID_OK == 200
GROBID_BUSY == 503

\* Response bodies: a TEI document with two references, one with none, bytes
\* that are no XML, whitespace only, and nothing.
TeiTwoRefs == <<"<", "T", "E", "I", ">", "2">>
TeiNoRefs == <<"<", "T", "E", "I", ">", "0">>
NotXml == <<"o", "o", "p", "s">>
BlankBody == <<" ", "\t">>
EmptyBody == <<>>
Bodies == {TeiTwoRefs, TeiNoRefs, NotXml, BlankBody, EmptyBody}

\* What requests.post comes to: a response, a requests.RequestException
\* (connection refused, timeout), or another exception.
GrobidResponses ==
    [kind : {"http"}, status : {GROBID_OK, GROBID_BUSY}, body : Bodies]
    \cup {[kind |-> k, status |-> 0, body |-> EmptyBody] : k \in {"RequestException", "other"}}

\* bytes.strip() is empty.
IsBlank(body) == \A k \in 1..Len(body) : body[k] \in Whitespace

\* Variant of Succeeds: the body is not looked at.
SucceedsOnStatus(resp) == resp.kind = "http" /\ resp.status = GROBID_OK

\* "if resp.status_code == 200 and resp.content.strip():"
Succeeds(resp) ==
    resp.kind = "http" /\ resp.status = GROBID_OK /\ ~IsBlank(resp.body)

\* The contents a PDF file can have, as bytes.
PdfContents == UNION {[1..n -> {"%", "P"}] : n \in 0..MaxPdfBytes}

\* What requests reads from the open file to build the multipart body: the
\* bytes from the current position to the end.
ReadRest(content, pos) == SubSeq(content, pos + 1, Len(content))

\* No call of grobid_process.
NoGrobid == [pc |-> "none"]

\* grobid_process(pdf_path, retry) is called on a file with this content.
GrobidCalled(content, readable, retry) ==
    [pc |-> "open", retry |-> retry, content |-> content, readable |-> readable, pos |-> 0,
     attempt |-> 0, posts |-> <<>>, sleeps |-> 0, result |-> <<>>, exc |-> NoExc]

\* 'files = {"input": (pdf_path.name, open(pdf_path, "rb"), ...)}': the file is
\* opened once, before the loop; open raises OSError when it cannot.
GrobidOpened(g) ==
    IF g.readable
    THEN [g EXCEPT !.pc = "loop", !.pos = 0, !.attempt = 1]
    ELSE [g EXCEPT !.pc = "raised", !.exc = "OSError"]

\* One iteration of "for attempt in range(1, retry + 1)": the POST, whose body
\* is read from the shared file object, then the return, the sleep, or the
\* exception that is no RequestException.
GrobidAttempted(g, resp) ==
    LET sent == [upload |-> ReadRest(g.content, g.pos), resp |-> resp]
        h == [g EXCEPT !.posts = Append(@, sent), !.pos = Len(g.content)]
    IN IF resp.kind = "other"
       THEN [h EXCEPT !.pc = "raised", !.exc = "other"]
       ELSE IF Succeeds(resp)
            THEN [h EXCEPT !.pc = "returned", !.result = resp.body]
            ELSE [h EXCEPT !.sleeps = @ + 1, !.attempt = @ + 1]

\* 'raise RuntimeError(f"GROBID failed for {pdf_path}")' after the loop.
GrobidGaveUp(g) == [g EXCEPT !.pc = "raised", !.exc = "RuntimeError"]

\* The steps of a call.
GrobidOpen ==
    /\ gp.pc = "open"
    /\ gp' = GrobidOpened(gp)
    /\ UNCHANGED <<tcall, vcall, gcall, scall, rx>>
    /\ UNCHANGED <<batchVars, rateVars>>

GrobidAttempt ==
    /\ gp.pc = "loop"
    /\ gp.attempt <= gp.retry
    /\ \E resp \in GrobidResponses : gp' = GrobidAttempted(gp, resp)
    /\ UNCHANGED <<tcall, vcall, gcall, scall, rx>>
    /\ UNCHANGED <<batchVars, rateVars>>

GrobidRaise ==
    /\ gp.pc = "loop"
    /\ gp.attempt > gp.retry
    /\ gp' = GrobidGaveUp(gp)
    /\ UNCHANGED <<tcall, vcall, gcall, scall, rx>>
    /\ UNCHANGED <<batchVars, rateVars>>

\* ------------------------------------------------- Reference_Extractor.main
\* The names a file of PDF_DIR can have, in sorted order.
PdfNames == <<"a.pdf", "b.pdf", "c.pdf", "d.pdf">>

\* The directories: any set of the first MaxPdfs names.
Directories == SUBSET {PdfNames[k] : k \in 1..MaxPdfs}

\* sorted(PDF_DIR.glob("*.pdf")): glob yields the files in any order, sorted
\* puts them in the order of their names.
RECURSIVE SortedFrom(_, _)
SortedFrom(names, k) ==
    IF k > Len(PdfNames) THEN <<>>
    ELSE (IF PdfNames[k] \in names THEN <<PdfNames[k]>> ELSE <<>>)
         \o SortedFrom(names, k + 1)
sorted(names) == SortedFrom(names, 1)

\* The bytes of every PDF of the directory.
PdfBytes == <<"%", "P">>

\* The biblStruct elements of the TEI documents, as parse_bibl_struct returns
\* them.
BiblFull == [title |-> "r1", authors |-> <<"A B", "C">>, year |-> "2001", venue |-> "v",
             doi |-> "10.1/x"]
BiblAuthorsOnly == [title |-> None, authors |-> <<"D">>, year |-> None, venue |-> None,
                    doi |-> None]
BiblBare == [title |-> None, authors |-> <<>>, year |-> "1999", venue |-> None, doi |-> None]

\* root.findall(".//{*}listBibl/{*}biblStruct"), parsed.
BiblsOf(tei) == IF tei = TeiTwoRefs THEN <<BiblFull, BiblBare, BiblAuthorsOnly>> ELSE <<>>

\* etree.fromstring(tei_xml_bytes) raises XMLSyntaxError.
ParseRaises(tei) == tei \notin {TeiTwoRefs, TeiNoRefs}

\* extract_references_from_tei: the references with a title or authors.
extract_references_from_tei(tei) ==
    SelectSeq(BiblsOf(tei), LAMBDA r : r.title # None \/ r.authors # <<>>)

\* "; ".join(r["authors"]), as the list of what is joined.
Joined(authors) == [sep |-> "; ", parts |-> authors]

\* One row of flat_rows.
FlatRow(name, r) ==
    [source_pdf |-> name, ref_title |-> r.title,
     ref_authors |-> IF r.authors # <<>> THEN Joined(r.authors) ELSE None,
     ref_year |-> r.year, ref_venue |-> r.venue, ref_doi |-> r.doi]

\* No run of main.
NoMain == [pc |-> "none"]

\* main is called, PDF_DIR holding these files (or not existing).
MainCalled(exists, names) ==
    [pc |-> "start", dir_exists |-> exists, dir |-> names, pdf_files |-> <<>>, i |-> 0,
     per_paper |-> <<>>, flat_rows |-> <<>>, log |-> <<>>, out_json |-> None,
     out_csv |-> None]

\* Variant of AfterPdfError: no handler, the exception leaves main.
AfterPdfErrorAbort(r, name, tei, exc) ==
    [r EXCEPT !.pc = "raised", !.log = Append(@, [name |-> name, tei |-> tei, exc |-> exc])]

\* "except Exception as e: print(...)": the loop goes on.
AfterPdfError(r, name, tei, exc) ==
    [r EXCEPT !.pc = "loop", !.i = @ + 1,
              !.log = Append(@, [name |-> name, tei |-> tei, exc |-> exc])]

\* The body of the try once grobid_process has returned tei.
AfterPdfReturned(r, name, tei) ==
    IF ParseRaises(tei) THEN AfterPdfError(r, name, tei, "XMLSyntaxError")
    ELSE LET refs == extract_references_from_tei(tei)
         IN [r EXCEPT !.pc = "loop", !.i = @ + 1,
                      !.per_paper = (name :> refs) @@ @,
                      !.flat_rows = @ \o [k \in 1..Len(refs) |-> FlatRow(name, refs[k])],
                      !.log = Append(@, [name |-> name, tei |-> tei, exc |-> NoExc])]

\* "if not PDF_DIR.exists(): raise", else the sorted list of PDFs and the two
\* empty collections.
MainStart ==
    /\ rx.pc = "start"
    /\ rx' = IF rx.dir_exists
             THEN [rx EXCEPT !.pc = "loop", !.pdf_files = sorted(rx.dir), !.i = 1]
             ELSE [rx EXCEPT !.pc = "raised"]
    /\ UNCHANGED <<tcall, vcall, gcall, scall, gp>>
    /\ UNCHANGED <<batchVars, rateVars>>

\* "tei = grobid_process(pdf)" is called for the next PDF, with the default
\* retry; the file may have become unreadable.
MainCall ==
    /\ rx.pc = "loop"
    /\ rx.i <= Len(rx.pdf_files)
    /\ \E readable \in BOOLEAN : gp' = GrobidCalled(PdfBytes, readable, DefaultRetry)
    /\ rx' = [rx EXCEPT !.pc = "call"]
    /\ UNCHANGED <<tcall, vcall, gcall, scall>>
    /\ UNCHANGED <<batchVars, rateVars>>

\* grobid_process has returned or raised: the rest of the try, or the handler.
MainAfter ==
    /\ rx.pc = "call"
    /\ gp.pc \in {"returned", "raised"}
    /\ rx' = IF gp.pc = "returned"
             THEN AfterPdfReturned(rx, rx.pdf_files[rx.i], gp.result)
             ELSE AfterPdfError(rx, rx.pdf_files[rx.i], None, gp.exc)
    /\ gp' = NoGrobid
    /\ UNCHANGED <<tcall, vcall, gcall, scall>>
    /\ UNCHANGED <<batchVars, rateVars>>

\* After the loop: json.dump(per_paper) to OUT_JSON, then the rows to OUT_CSV.
MainSave ==
    /\ rx.pc = "loop"
    /\ rx.i > Len(rx.pdf_files)
    /\ rx' = [rx EXCEPT !.pc = "done", !.out_json = rx.per_paper, !.out_csv = rx.flat_rows]
    /\ UNCHANGED <<tcall, vcall, gcall, scall, gp>>
    /\ UNCHANGED <<batchVars, rateVars>>

\* Nothing of Reference_Extractor.py runs.
NoRefs == gp = NoGrobid /\ rx = NoMain

\* No function is studied on its own.
NoCalls ==
    /\ tcall = NoTitlesCall
    /\ gcall = NoGateCall
    /\ vcall = NoValidateCall
    /\ scall = NoStrategyCall
    /\ NoRefs

\* ---------------------------------------------------------------- rate_limit
\* self.request_delay in ticks of the clock.
Delay == request_delay * TicksPerSecond

\* time.time() when the PDFExtractor is built: seconds since the epoch, so more
\* than request_delay away from the initial last_request_time = 0.
FirstTick == Delay
LastTick == FirstTick + MaxTicks

\* The call sites of rate_limit: channel ch is the strategy search_methods[ch - 1]
\* (its backend), channel NumMethods + 1 is validate_pdf_url.
Channels == 1..Min(MaxChannels, NumMethods + 1)

\* A thread that is not inside rate_limit.
OutOfRateLimit == [pc |-> "out", chan |-> 0, current_time |-> 0, wake |-> 0]

\* __init__, lines 32-34, and no thread inside rate_limit.
RateNew ==
    /\ clock = FirstTick
    /\ last_request_time = 0
    /\ stamped_by = [chan |-> 0, thread |-> 0]
    /\ rl = [w \in WorkerIds |-> OutOfRateLimit]
    /\ returned_at = [w \in WorkerIds |-> 0]

\* Variant of SleepFor: the limiter never waits.
SleepForNothing(time_since_last) == 0

\* The argument of time.sleep: self.request_delay - time_since_last.
SleepFor(time_since_last) == Delay - time_since_last

\* Time passes.
Tick ==
    /\ clock < LastTick
    /\ clock' = clock + 1
    /\ UNCHANGED <<last_request_time, stamped_by, rl, returned_at>>
    /\ UNCHANGED <<batchVars, callVars>>

\* Thread w calls rate_limit from call site ch: "current_time = time.time()".
RateEnter(w, ch) ==
    /\ w \in Threads
    /\ rl[w].pc = "out"
    /\ rl' = [rl EXCEPT ![w] = [pc |-> "timed", chan |-> ch, current_time |-> clock,
                                 wake |-> 0]]
    /\ UNCHANGED <<clock, last_request_time, stamped_by, returned_at>>
    /\ UNCHANGED <<batchVars, callVars>>

\* "time_since_last = current_time - self.last_request_time" and the test: the
\* thread goes into time.sleep, which ends no sooner than asked, or goes on.
RateCheck(w) ==
    /\ rl[w].pc = "timed"
    /\ LET time_since_last == rl[w].current_time - last_request_time
       IN rl' = [rl EXCEPT ![w] =
                   IF time_since_last < Delay
                   THEN [@ EXCEPT !.pc = "sleep", !.wake = clock + SleepFor(time_since_last)]
                   ELSE [@ EXCEPT !.pc = "stamp"]]
    /\ UNCHANGED <<clock, last_request_time, stamped_by, returned_at>>
    /\ UNCHANGED <<batchVars, callVars>>

\* time.sleep returns: at the time asked for, or later.
RateWake(w) ==
    /\ rl[w].pc = "sleep"
    /\ clock >= rl[w].wake
    /\ rl' = [rl EXCEPT ![w].pc = "stamp"]
    /\ UNCHANGED <<clock, last_request_time, stamped_by, returned_at>>
    /\ UNCHANGED <<batchVars, callVars>>

\* "self.last_request_time = time.time()", and rate_limit returns.
RateStamp(w) ==
    /\ rl[w].pc = "stamp"
    /\ last_request_time' = clock
    /\ stamped_by' = [chan |-> rl[w].chan, thread |-> w]
    /\ returned_at' = [returned_at EXCEPT ![w] = clock]
    /\ rl' = [rl EXCEPT ![w] = OutOfRateLimit]
    /\ UNCHANGED clock
    /\ UNCHANGED <<batchVars, callVars>>

\* ------------------------------------------------------ process_papers_file
\* The input files of a batch run.
Worklists == UNION {[1..n -> BatchCitations] : n \in 0..MaxPapers}

\* papers_without_pdfs = [p for p in papers if not p.pdf], as indices.
WithoutPdfs(ps) == SelectSeq([i \in 1..Len(ps) |-> i], LAMBDA i : ~Truthy(ps[i].pdf))

\* Variant of SubmitCount: the slice is missing, every paper without a document
\* is submitted.
SubmitCountAll == Len(todo)

\* The number of work items submitted: len(papers_without_pdfs[:100]).
SubmitCount == Min(Len(todo), BatchLimit)

\* Variant of StatsOnException: the except branch counts nothing.
StatsOnExceptionLost(st) == st

\* "self.stats['pdfs_not_found'] += 1" of the except branch.
StatsOnException(st) == [st EXCEPT !.pdfs_not_found = @ + 1]

\* Variant of StatsOnResult: the update is lost.
StatsOnResultLost(st, pdf_url) == st

\* Variant of StatsOnResult: every returned result is counted as found.
StatsOnResultAlwaysFound(st, pdf_url) == [st EXCEPT !.pdfs_found = @ + 1]

\* The counters after "pdf_url = future.result()" returned pdf_url.
StatsOnResult(st, pdf_url) ==
    IF Truthy(pdf_url)
    THEN [st EXCEPT !.pdfs_found = @ + 1]
    ELSE [st EXCEPT !.pdfs_not_found = @ + 1]

\* Variant of PaperOnResult: the URL found is not stored.
PaperOnResultDropped(p, pdf_url) == p

\* "paper.pdf = pdf_url" when pdf_url is truthy.
PaperOnResult(p, pdf_url) == IF Truthy(pdf_url) THEN [p EXCEPT !.pdf = pdf_url] ELSE p

\* One record of updated_papers.
PaperDict(p) ==
    [title |-> p.title, year |-> p.year, venue |-> p.venue, url |-> p.url,
     citations |-> p.citations, PDF |-> p.pdf]

\* Variant of updated_papers: one record per yielded future, in the order yielded.
updated_papers_as_completed(ps) ==
    [k \in 1..Len(yielded) |-> PaperDict(ps[futs[yielded[k]].paper])]

\* updated_papers: one record per element of papers, in the order of papers.
updated_papers(ps) == [i \in 1..Len(ps) |-> PaperDict(ps[i])]

\* Variant of Loads: a record that cannot be converted does not stop the load.
LoadsAnyRecord(state, records) == state = "readable"

\* open, json.load and every Paper(**paper_data) succeed.
Loads(state, records) ==
    /\ state = "readable"
    /\ \A i \in 1..Len(records) : Convertible(records[i])

\* The file is read, the Paper objects are built and the first three counters
\* set; or open, json.load or Paper(**paper_data) raises, and the exception
\* leaves process_papers_file.
Load ==
    /\ phase = "new"
    /\ IF Loads(file_state, input)
       THEN /\ papers' = [i \in 1..Len(input) |-> Paper(input[i])]
            /\ todo' = WithoutPdfs(papers')
            /\ stats' = [stats EXCEPT !.total_papers = Len(papers'),
                                      !.papers_with_pdfs = Len(papers') - Len(todo'),
                                      !.papers_without_pdfs = Len(todo')]
            /\ phase' = "run"
       ELSE /\ phase' = "raised"
            /\ UNCHANGED <<papers, todo, stats>>
    /\ UNCHANGED <<world, file_state, input, max_workers, futs, queue, yielded, output, pc,
                   cur, meth, cand, traced, hist, seen>>
    /\ UNCHANGED <<run, rateVars, callVars>>

\* One executor.submit of the dict comprehension.
SubmitNext ==
    /\ phase = "run"
    /\ Len(futs) < SubmitCount
    /\ futs' = Append(futs, [paper |-> todo[Len(futs) + 1], state |-> "pending",
                             result |-> None, exception |-> NoExc])
    /\ queue' = Append(queue, Len(futs) + 1)
    /\ UNCHANGED <<world, file_state, input, max_workers, phase, papers, todo, yielded,
                   stats, output, pc, cur, meth, cand, traced, hist, seen>>
    /\ UNCHANGED <<run, rateVars, callVars>>

\* The futures as_completed may yield next: any finished one not yet yielded
\* (in the scripted world, the one submitted first).
Yieldable ==
    LET got == Range(yielded)
        ready == {j \in 1..Len(futs) : futs[j].state = "finished" /\ j \notin got}
    IN IF world = "scripted" THEN {j \in ready : \A k \in ready : j <= k} ELSE ready

\* The dict comprehension has made all its submissions.
Submitted == phase \in {"run", "done"} /\ Len(futs) = SubmitCount

\* One iteration of "for future in as_completed(future_to_paper)".
Collect(j) ==
    /\ phase = "run"
    /\ Len(futs) = SubmitCount
    /\ yielded' = Append(yielded, j)
    /\ IF futs[j].exception # NoExc
       THEN /\ stats' = StatsOnException(stats)
            /\ UNCHANGED papers
       ELSE /\ stats' = StatsOnResult(stats, futs[j].result)
            /\ papers' = [papers EXCEPT ![futs[j].paper] = PaperOnResult(@, futs[j].result)]
    /\ UNCHANGED <<world, file_state, input, max_workers, phase, todo, futs, queue, output,
                   pc, cur, meth, cand, traced, hist, seen>>
    /\ UNCHANGED <<run, rateVars, callVars>>

\* After the loop: the pool is shut down, updated_papers is built and written.
Save ==
    /\ phase = "run"
    /\ Len(futs) = SubmitCount
    /\ Len(yielded) = Len(futs)
    /\ output' = updated_papers(papers)
    /\ phase' = "done"
    /\ UNCHANGED <<world, file_state, input, max_workers, papers, todo, futs, queue,
                   yielded, stats, pc, cur, meth, cand, traced, hist, seen>>
    /\ UNCHANGED <<run, rateVars, callVars>>

\* process_papers_file is called again on the same PDFExtractor, once the
\* previous call has returned: the locals of the call are new (the file it reads,
\* its pool, its futures); self.stats is the object the previous call left.
Rerun ==
    /\ phase = "done"
    /\ run < MaxRuns
    /\ run' = run + 1
    /\ \E file \in Worklists, n \in 1..MaxWorkers :
         /\ input' = file
         /\ max_workers' = n
    /\ phase' = "new"
    /\ papers' = <<>>
    /\ todo' = <<>>
    /\ futs' = <<>>
    /\ queue' = <<>>
    /\ yielded' = <<>>
    /\ output' = <<>>
    /\ seen' = {}
    /\ UNCHANGED <<world, file_state, stats, pc, cur, meth, cand, traced, hist>>
    /\ UNCHANGED <<rateVars, callVars>>

\* ---------------------------------------------------------- specifications
\* PDFExtractor.__init__
NewStats == [total_papers |-> 0, papers_with_pdfs |-> 0, papers_without_pdfs |-> 0,
             pdfs_found |-> 0, pdfs_not_found |-> 0]


InitCommon ==
    /\ queue = <<>>
    /\ yielded = <<>>
    /\ stats = NewStats
    /\ output = <<>>
    /\ meth = [w \in WorkerIds |-> 0]
    /\ cand = [w \in WorkerIds |-> None]
    /\ hist = NoHist
    /\ seen = {}
    /\ run = 1
    /\ RateNew

\* A batch run: a new PDFExtractor, and process_papers_file about to be called.
Init ==
    /\ world = "open"
    /\ file_state = "readable"
    /\ input \in Worklists
    /\ max_workers \in 1..MaxWorkers
    /\ phase = "new"
    /\ papers = <<>>
    /\ todo = <<>>
    /\ futs = <<>>
    /\ pc = [w \in WorkerIds |-> "idle"]
    /\ cur = [w \in WorkerIds |-> 0]
    /\ traced = 0
    /\ InitCommon
    /\ NoCalls

WorkerStep(w) == WorkerTake(w) \/ FindStart(w) \/ TryStrategy(w) \/ Validate(w)

Next ==
    \/ Load
    \/ SubmitNext
    \/ \E w \in WorkerIds : WorkerStep(w)
    \/ \E j \in Yieldable : Collect(j)
    \/ Save

Spec == Init /\ [][Next]_vars

\* The scheduling the run relies on: the calling thread goes on with its next
\* statement, each pool thread that has something to do is given the processor
\* in the end, and every call a thread is blocked in (a request with its
\* timeout, a sleep of rate_limit) returns.
Fairness ==
    /\ WF_vars(Load)
    /\ WF_vars(SubmitNext)
    /\ \A w \in WorkerIds : WF_vars(WorkerStep(w))
    /\ WF_vars(\E j \in Yieldable : Collect(j))
    /\ WF_vars(Save)

\* A batch run under that scheduling.
SpecFair == Init /\ [][Next]_vars /\ Fairness

\* A direct call find_pdf_for_paper(paper) on a new PDFExtractor, traced.
InitFind ==
    /\ world = "open"
    /\ file_state = "readable"
    /\ input \in {<<c>> : c \in AllCitations}
    /\ max_workers = 1
    /\ phase = "direct"
    /\ papers = <<Paper(input[1])>>
    /\ todo = <<>>
    /\ futs = <<[paper |-> 1, state |-> "running", result |-> None, exception |-> NoExc]>>
    /\ pc = [w \in WorkerIds |-> IF w = 1 THEN "start" ELSE "idle"]
    /\ cur = [w \in WorkerIds |-> IF w = 1 THEN 1 ELSE 0]
    /\ traced = 1
    /\ InitCommon
    /\ NoCalls

NextFind == \E w \in WorkerIds : FindStart(w) \/ TryStrategy(w) \/ Validate(w)

SpecFind == InitFind /\ [][NextFind]_vars

\* A batch run over a worklist one longer than the batch limit, every paper of
\* it without a document URL, with one worker and the scripted network.
InitCap ==
    /\ world = "scripted"
    /\ file_state = "readable"
    /\ input = [i \in 1..(BatchLimit + 1) |-> IF i = 1 THEN CitEmpty ELSE CitNoKey]
    /\ max_workers = 1
    /\ phase = "new"
    /\ papers = <<>>
    /\ todo = <<>>
    /\ futs = <<>>
    /\ pc = [w \in WorkerIds |-> "idle"]
    /\ cur = [w \in WorkerIds |-> 0]
    /\ traced = 0
    /\ InitCommon
    /\ NoCalls

SpecCap == InitCap /\ [][Next]_vars

\* Batch runs one after the other on one PDFExtractor, with the scripted network.
InitRerun ==
    /\ world = "scripted"
    /\ file_state = "readable"
    /\ input \in Worklists
    /\ max_workers \in 1..MaxWorkers
    /\ phase = "new"
    /\ papers = <<>>
    /\ todo = <<>>
    /\ futs = <<>>
    /\ pc = [w \in WorkerIds |-> "idle"]
    /\ cur = [w \in WorkerIds |-> 0]
    /\ traced = 0
    /\ InitCommon
    /\ NoCalls

NextRerun == Next \/ Rerun

\* process_papers_file is called again on the same PDFExtractor, its input file
\* being the output file of the run that has ended (json.dump, then json.load:
\* the records come back with the keys they were written with).
Refeed ==
    /\ phase = "done"
    /\ run < MaxRuns
    /\ run' = run + 1
    /\ input' = output
    /\ phase' = "new"
    /\ papers' = <<>>
    /\ todo' = <<>>
    /\ futs' = <<>>
    /\ queue' = <<>>
    /\ yielded' = <<>>
    /\ output' = <<>>
    /\ seen' = {}
    /\ UNCHANGED <<world, file_state, max_workers, stats, pc, cur, meth, cand, traced, hist>>
    /\ UNCHANGED <<rateVars, callVars>>

NextRefeed == Next \/ Refeed

\* A batch run with the scripted network, then a run on what it wrote.
SpecRefeed == InitRerun /\ [][NextRefeed]_vars

\* The input files process_papers_file can be given: records that convert and
\* records that do not.
LoadWorklists == UNION {[1..n -> BatchCitations \cup {CitExtraKey}] : n \in 0..MaxPapers}

\* A batch run on a file that may be missing, not JSON, or hold a record that
\* is no Paper; the scripted network.
InitLoad ==
    /\ world = "scripted"
    /\ \/ file_state = "readable" /\ input \in LoadWorklists
       \/ file_state \in {"missing", "corrupt"} /\ input = <<>>
    /\ max_workers \in 1..MaxWorkers
    /\ phase = "new"
    /\ papers = <<>>
    /\ todo = <<>>
    /\ futs = <<>>
    /\ pc = [w \in WorkerIds |-> "idle"]
    /\ cur = [w \in WorkerIds |-> 0]
    /\ traced = 0
    /\ InitCommon
    /\ NoCalls

SpecLoad == InitLoad /\ [][Next]_vars

\* The threads of a pool calling rate_limit on one PDFExtractor, time passing.
InitRate ==
    /\ world = "open"
    /\ file_state = "readable"
    /\ input = <<>>
    /\ max_workers \in 1..MaxWorkers
    /\ phase = "limiter"
    /\ papers = <<>>
    /\ todo = <<>>
    /\ futs = <<>>
    /\ pc = [w \in WorkerIds |-> "idle"]
    /\ cur = [w \in WorkerIds |-> 0]
    /\ traced = 0
    /\ InitCommon
    /\ NoCalls

\* No batch and no call of find_pdf_for_paper: a new PDFExtractor.
NoBatch ==
    /\ world = "open"
    /\ file_state = "readable"
    /\ input = <<>>
    /\ max_workers = 1
    /\ phase = "call"
    /\ papers = <<>>
    /\ todo = <<>>
    /\ futs = <<>>
    /\ pc = [w \in WorkerIds |-> "idle"]
    /\ cur = [w \in WorkerIds |-> 0]
    /\ traced = 0
    /\ InitCommon

\* One call titles_similar(title1, title2, threshold).
InitTitles ==
    /\ NoBatch
    /\ NoRefs
    /\ tcall \in [title1 : Titles, title2 : Titles, threshold : Thresholds,
                   returned : {FALSE}, result : {FALSE}]
    /\ vcall = NoValidateCall
    /\ gcall = NoGateCall
    /\ scall = NoStrategyCall

NextTitles == CallTitlesSimilar

\* One result of a backend tested against one citation title.
InitGate ==
    /\ NoBatch
    /\ NoRefs
    /\ tcall = NoTitlesCall
    /\ vcall = NoValidateCall
    /\ gcall \in [title : GateTitles, reported : GateTitles, returned : {FALSE},
                   result : {FALSE}]
    /\ scall = NoStrategyCall

NextGate == CallGate

\* One call grobid_process(pdf_path, retry).
InitGrobid ==
    /\ NoBatch
    /\ tcall = NoTitlesCall
    /\ vcall = NoValidateCall
    /\ gcall = NoGateCall
    /\ scall = NoStrategyCall
    /\ \E content \in PdfContents, readable \in BOOLEAN, retry \in 0..MaxRetry :
         gp = GrobidCalled(content, readable, retry)
    /\ rx = NoMain

NextGrobid == GrobidOpen \/ GrobidAttempt \/ GrobidRaise

SpecGrobid == InitGrobid /\ [][NextGrobid]_vars

\* One run of main.
InitRefs ==
    /\ NoBatch
    /\ tcall = NoTitlesCall
    /\ vcall = NoValidateCall
    /\ gcall = NoGateCall
    /\ scall = NoStrategyCall
    /\ gp = NoGrobid
    /\ \E exists \in BOOLEAN, names \in Directories :
         rx = MainCalled(exists, IF exists THEN names ELSE {})

NextRefs ==
    \/ MainStart
    \/ MainCall
    \/ GrobidOpen
    \/ GrobidAttempt
    \/ GrobidRaise
    \/ MainAfter
    \/ MainSave

SpecRefs == InitRefs /\ [][NextRefs]_vars

SpecGate == InitGate /\ [][NextGate]_vars

SpecTitles == InitTitles /\ [][NextTitles]_vars

\* One call validate_pdf_url(url).
InitValidate ==
    /\ NoBatch
    /\ NoRefs
    /\ tcall = NoTitlesCall
    /\ vcall \in [url : ProbeUrls, probe : ProbeResponses, returned : {FALSE},
                   result : {FALSE}, exc : {NoExc}]
    /\ gcall = NoGateCall
    /\ scall = NoStrategyCall

NextValidate == CallValidate

SpecValidate == InitValidate /\ [][NextValidate]_vars

\* One call of one of the four strategies.
InitStrategy ==
    /\ NoBatch
    /\ NoRefs
    /\ tcall = NoTitlesCall
    /\ vcall = NoValidateCall
    /\ gcall = NoGateCall
    /\ \/ scall \in [m : 1..(NumMethods - 1), url : SourceUrls, resp : SearchResponses,
                      returned : {FALSE}, result : {None}, calls : {<<>>}, doi : {<<>>}]
       \/ scall \in [m : {NumMethods}, url : SourceUrls, resp : DoiResponses,
                      returned : {FALSE}, result : {None}, calls : {<<>>}, doi : {<<>>}]

NextStrategy == CallStrategy

SpecStrategy == InitStrategy /\ [][NextStrategy]_vars

NextRate ==
    \/ Tick
    \/ \E w \in WorkerIds, ch \in Channels : RateEnter(w, ch)
    \/ \E w \in WorkerIds : RateCheck(w)
    \/ \E w \in WorkerIds : RateWake(w)
    \/ \E w \in WorkerIds : RateStamp(w)

SpecRate == InitRate /\ [][NextRate]_vars

\* One thread calling rate_limit again and again, time passing.
InitRateOne == InitRate /\ max_workers = 1

SpecRateOne == InitRateOne /\ [][NextRate]_vars

SpecRerun == InitRerun /\ [][NextRerun]_vars

\* ------------------------------------------------------------------ claims
\* The document URL the i-th input record carries.
InputPdf(i) == Paper(input[i]).pdf

Running == {j \in 1..Len(futs) : futs[j].state = "running"}
IsDone(j) == futs[j].state = "finished"
NewlyYielded(j) == j \notin Range(yielded) /\ j \in Range(yielded')

\* C1: for a citation that already carries a non-empty document URL,
\* find_pdf_for_paper returns exactly that URL, and no strategy, no validation
\* and no rate_limit call is made for it (the history of the call stays empty,
\* and the call never enters the loop).
C1_ShortCircuit ==
    \A j \in 1..Len(futs) :
        (j = traced /\ Truthy(InputPdf(futs[j].paper))) =>
            /\ hist = NoHist
            /\ \A w \in WorkerIds : cur[w] = j => pc[w] = "start"
            /\ IsDone(j) => /\ futs[j].result = InputPdf(futs[j].paper)
                            /\ futs[j].exception = NoExc

C1_Witness ==
    /\ traced = 1
    /\ IsDone(1)
    /\ Truthy(InputPdf(1))
    /\ futs[1].result = HaveUrl
    /\ hist.nrl = 0 /\ hist.nnet = 0

\* C2: for a citation with no document URL, the methods are called in the
\* priority order 1..4, and a call that returns a URL returns the candidate of
\* the first method whose candidate validate_pdf_url accepted: every URL returned
\* was validated true in this call, and a validated candidate is what is returned.
C2_FirstValidated ==
    \A j \in 1..Len(futs) :
        (j = traced /\ IsDone(j) /\ futs[j].exception = NoExc
           /\ ~Truthy(InputPdf(futs[j].paper))) =>
            LET ev == hist.events
                acc == {k \in 1..Len(ev) : ev[k].ok = "yes"}
            IN /\ \A k \in 1..Len(ev) : ev[k].m = k
               /\ Truthy(futs[j].result) => acc # {}
               /\ acc # {} =>
                    /\ futs[j].result = ev[CHOOSE k \in acc : \A l \in acc : k <= l].value
                    /\ futs[j].result \in CandidateUrls
                    /\ \A k \in 1..Len(ev) : k \notin acc => ev[k].ok # "yes"

\* The first three methods yield nothing, the DOI lookup yields a candidate that
\* validates, and it is what the call returned.
C2_Witness ==
    /\ traced = 1
    /\ IsDone(1)
    /\ Len(hist.events) = NumMethods
    /\ \A k \in 1..(NumMethods - 1) : hist.events[k].value = None
    /\ hist.events[NumMethods].ok = "yes"
    /\ futs[1].result = hist.events[NumMethods].value
    /\ futs[1].result = ViewUrl

\* C3: a call in which no method returned a candidate returns None; the
\* citation's document URL stays unset, in papers and in the output; and when
\* the batch collects it, pdfs_not_found goes up by one and pdfs_found stays.
C3_Unset ==
    \A j \in 1..Len(futs) :
        (IsDone(j) /\ futs[j].exception = NoExc /\ j \notin seen) =>
            /\ futs[j].result = None
            /\ ~Truthy(papers[futs[j].paper].pdf)
            /\ phase = "done" => ~Truthy(output[futs[j].paper].PDF)

C3_Counted ==
    \A j \in 1..Len(futs) :
        (NewlyYielded(j) /\ futs[j].exception = NoExc /\ j \notin seen) =>
            /\ stats'.pdfs_not_found = stats.pdfs_not_found + 1
            /\ stats'.pdfs_found = stats.pdfs_found
            /\ papers' = papers

C3_NoResultNotFound == []C3_Unset /\ [][C3_Counted]_vars

C3_Witness ==
    /\ phase = "done"
    /\ \E j \in 1..Len(futs) :
         /\ j \notin seen
         /\ futs[j].exception = NoExc
         /\ futs[j].result = None
         /\ output[futs[j].paper].PDF = ""
    /\ stats.pdfs_not_found = 1
    /\ stats.pdfs_found = 1

\* C4: once validate_pdf_url has accepted a candidate, the call is over: no
\* later method is called and nothing more is validated (the accepted event is
\* the last of the history, and the call has returned its URL).
C4_NoBacktracking ==
    traced # 0 =>
        \A k \in 1..Len(hist.events) :
            hist.events[k].ok = "yes" =>
                /\ k = Len(hist.events)
                /\ IsDone(traced)
                /\ futs[traced].result = hist.events[k].value
                /\ \A w \in WorkerIds : cur[w] # traced

\* The first method's candidate validated, and it was the only method called.
C4_Witness ==
    /\ traced = 1
    /\ IsDone(1)
    /\ Len(hist.events) = 1
    /\ hist.events[1].m = 1
    /\ hist.events[1].ok = "yes"
    /\ hist.nnet = 2

\* C5: whatever goes wrong inside a method or inside the validator, no
\* exception of theirs leaves find_pdf_for_paper: once the loop was entered the
\* call ends by returning a URL or None.
C5_Contained ==
    traced # 0 =>
        /\ futs[traced].exception \notin {"method", "validate"}
        /\ (IsDone(traced) /\ hist.events # <<>>) =>
              /\ futs[traced].exception = NoExc
              /\ futs[traced].result \in {None} \cup CandidateUrls

\* A method raised, the validator raised, a validation failed, and the call
\* returned all the same.
C5_Witness ==
    /\ traced = 1
    /\ IsDone(1)
    /\ futs[1].exception = NoExc
    /\ \E k \in 1..Len(hist.events) : hist.events[k].value = Raised
    /\ \E k \in 1..Len(hist.events) : hist.events[k].ok = Raised
    /\ \E k \in 1..Len(hist.events) : hist.events[k].ok = "no"

\* C6 (as claimed): once the submissions are made, every citation without a
\* document URL on input has an orchestration submitted for it, whatever the
\* length of the worklist.
C6_AllUnresolvedSubmitted ==
    Submitted =>
        \A i \in 1..Len(input) :
            ~Truthy(InputPdf(i)) => \E j \in 1..Len(futs) : futs[j].paper = i

\* C7: at most max_workers calls of find_pdf_for_paper run at any moment, and a
\* thread runs one call at a time: the running futures are exactly the ones
\* held by the busy threads, one thread each.
C7_BoundedConcurrency ==
    /\ Cardinality(Running) <= max_workers
    /\ \A j \in Running :
         Cardinality({w \in WorkerIds : cur[w] = j /\ pc[w] # "idle"}) = 1
    /\ \A w \in WorkerIds :
         IF pc[w] = "idle" THEN cur[w] = 0 ELSE cur[w] \in Running

\* Two calls run at once: max_workers allows it and both threads are busy.
C7_Witness ==
    /\ max_workers = 2
    /\ Cardinality(Running) = 2
    /\ \A w \in Threads : pc[w] \in {"loop", "validate"}

\* The fields a record of the output shares with a record of the input.
SameCitation(o, d) ==
    /\ o.title = d.title
    /\ o.year = d.year
    /\ o.venue = d.venue
    /\ o.url = d.url
    /\ o.citations = d.citations

\* C8: the output has as many records as the input and its i-th record is the
\* i-th citation of the input, in whatever order the calls completed.
C8_OutputOrder ==
    phase = "done" =>
        /\ Len(output) = Len(input)
        /\ \A i \in 1..Len(input) : SameCitation(output[i], input[i])

\* Two different citations, the call for the second collected before the call
\* for the first.
C8_Witness ==
    /\ phase = "done"
    /\ Len(input) = 2
    /\ yielded = <<2, 1>>
    /\ input[1] # input[2]
    /\ Len(output) = 2

\* C9: when the call for citation k raised, collecting it adds exactly one to
\* pdfs_not_found, leaves pdfs_found and every paper as they are, and the run
\* goes on; at the end every future was collected, the output is written and
\* k's document URL is unset in it.
C9_Counted ==
    \A j \in 1..Len(futs) :
        (NewlyYielded(j) /\ futs[j].exception # NoExc) =>
            /\ stats' = [stats EXCEPT !.pdfs_not_found = @ + 1]
            /\ papers' = papers
            /\ phase' = "run"

C9_Completes ==
    phase = "done" =>
        /\ Range(yielded) = 1..Len(futs)
        /\ Len(output) = Len(papers)
        /\ \A j \in 1..Len(futs) :
             futs[j].exception # NoExc => ~Truthy(output[futs[j].paper].PDF)

C9_FailureTolerated == []C9_Completes /\ [][C9_Counted]_vars

\* One call raised, another found a document, and the run was completed.
C9_Witness ==
    /\ phase = "done"
    /\ \E j \in 1..Len(futs) : futs[j].exception = "entry"
    /\ \E j \in 1..Len(futs) : Truthy(futs[j].result)
    /\ stats.pdfs_not_found = 1
    /\ stats.pdfs_found = 1

\* C10 (as claimed): at the end of a batch run,
\* papers_with_pdfs + papers_without_pdfs = total_papers and
\* pdfs_found + pdfs_not_found = papers_without_pdfs, whatever the worklist.
C10_StatsIdentities ==
    phase = "done" =>
        /\ stats.papers_with_pdfs + stats.papers_without_pdfs = stats.total_papers
        /\ stats.pdfs_found + stats.pdfs_not_found = stats.papers_without_pdfs

\* The results the calls of this run came to, as the collector counts them.
FoundNow == {j \in Range(yielded) : futs[j].exception = NoExc /\ Truthy(futs[j].result)}
NotFoundNow == Range(yielded) \ FoundNow

\* C11 (as claimed): at the end of a batch run the five counters are those of
\* this run alone: the first three describe its worklist, pdfs_found and
\* pdfs_not_found count its calls, whatever ran on the PDFExtractor before.
C11_StatsOfThisRun ==
    phase = "done" =>
        /\ stats.total_papers = Len(papers)
        /\ stats.papers_with_pdfs = Len(papers) - Len(todo)
        /\ stats.papers_without_pdfs = Len(todo)
        /\ stats.pdfs_found = Cardinality(FoundNow)
        /\ stats.pdfs_not_found = Cardinality(NotFoundNow)

\* Thread w returns from rate_limit in this step.
Returns(w) == rl[w].pc = "stamp" /\ rl'[w].pc = "out"

\* Thread w goes into time.sleep in this step.
Sleeps(w) == rl[w].pc = "timed" /\ rl'[w].pc = "sleep"

\* C12: between two calls of rate_limit that one thread makes one after the
\* other, the second returns no sooner than request_delay after the first
\* returned, whatever time passes before, between and inside the calls.
C12_Spaced ==
    \A w \in WorkerIds :
        (Returns(w) /\ returned_at[w] # 0) => clock - returned_at[w] >= Delay

C12_MinimumInterval == [][C12_Spaced]_vars

\* The only thread of the pool called again before request_delay had passed,
\* slept, and is about to return exactly request_delay after its last return.
C12_Witness ==
    /\ max_workers = 1
    /\ rl[1].pc = "stamp"
    /\ rl[1].wake # 0
    /\ rl[1].current_time < returned_at[1] + Delay
    /\ clock = returned_at[1] + Delay

\* C13 (as claimed): under any interleaving of the threads, a call of
\* rate_limit returns no sooner than request_delay after the last return of any
\* other thread.
C13_Spaced ==
    \A w \in WorkerIds : \A v \in WorkerIds \ {w} :
        (Returns(w) /\ returned_at[v] # 0) => clock - returned_at[v] >= Delay

C13_NoTwoWithinDelay == [][C13_Spaced]_vars

\* C14 (as claimed): a call of rate_limit waits only on a timestamp that a call
\* from its own call site wrote: a request another thread made to a different
\* backend never makes it sleep.
C14_Waits ==
    \A w \in WorkerIds :
        (Sleeps(w) /\ stamped_by.thread # w) => stamped_by.chan = rl[w].chan

C14_OwnLimiter == [][C14_Waits]_vars

\* C15: titles_similar gives the same answer with its two titles exchanged,
\* for every pair of titles and every threshold.
C15_Symmetric ==
    tcall.returned =>
        tcall.result = titles_similar(tcall.title2, tcall.title1, tcall.threshold)

\* Two titles with different sets of words were found similar.
C15_Witness ==
    /\ tcall.returned
    /\ tcall.result
    /\ words(tcall.title1) # words(tcall.title2)
    /\ Len(tcall.title1) < Len(tcall.title2)

\* s has a character that is not whitespace.
HasWord(s) == \E k \in 1..Len(s) : s[k] \notin Whitespace

\* C16 (as claimed): titles_similar(a, a) is true for every non-empty a, the
\* strings made of whitespace only included (default threshold).
C16_ReflexiveNonEmpty ==
    (tcall.returned /\ tcall.title1 = tcall.title2 /\ tcall.title1 # <<>>
       /\ tcall.threshold = DefaultThreshold) => tcall.result

\* C16 (amended): titles_similar(a, a) is true for every a that has at least
\* one character that is not whitespace, at every threshold up to 1.
C16_Reflexive ==
    (tcall.returned /\ tcall.title1 = tcall.title2 /\ HasWord(tcall.title1)
       /\ tcall.threshold.num <= tcall.threshold.den) => tcall.result

\* A title with capitals and whitespace in it was compared with itself.
C16_Witness ==
    /\ tcall.returned
    /\ tcall.title1 = tcall.title2
    /\ \E k \in 1..Len(tcall.title1) : tcall.title1[k] \in Whitespace
    /\ \E k \in 1..Len(tcall.title1) : tcall.title1[k] = "A"
    /\ tcall.result

\* The lowercased whitespace tokens of s, said without reading s from left to
\* right: the maximal runs of characters that are not whitespace, each letter
\* that has two cases taken in its lower case.
Folded(t) ==
    [k \in 1..Len(t) |->
       IF \E u \in 1..Len(UpperCase) : UpperCase[u] = t[k]
       THEN LowerCase[CHOOSE u \in 1..Len(UpperCase) : UpperCase[u] = t[k]]
       ELSE t[k]]

TokenSet(s) ==
    {Folded(SubSeq(s, p[1], p[2])) :
       p \in {q \in (1..Len(s)) \X (1..Len(s)) :
                /\ q[1] <= q[2]
                /\ \A k \in q[1]..q[2] : s[k] \notin Whitespace
                /\ q[1] = 1 \/ s[q[1] - 1] \in Whitespace
                /\ q[2] = Len(s) \/ s[q[2] + 1] \in Whitespace}}

\* C17: titles_similar(a, b, threshold) is true exactly when both token sets
\* are non-empty and |A n B| / |A u B| >= threshold; the boundary (7 of 10 at
\* the default 0.7) is accepted, and an empty side gives false.
C17_Jaccard ==
    tcall.returned =>
        LET A == TokenSet(tcall.title1)
            B == TokenSet(tcall.title2)
        IN tcall.result <=>
             /\ A # {}
             /\ B # {}
             /\ Cardinality(A \cap B) * tcall.threshold.den
                  >= tcall.threshold.num * Cardinality(A \cup B)

\* Seven shared tokens of ten, at the default threshold: similar.
C17_Witness ==
    /\ tcall.returned
    /\ tcall.threshold = DefaultThreshold
    /\ Cardinality(TokenSet(tcall.title1) \cap TokenSet(tcall.title2)) = 7
    /\ Cardinality(TokenSet(tcall.title1) \cup TokenSet(tcall.title2)) = 10
    /\ tcall.result

\* The path of a URL: its text up to the first "?" or "#".
UrlPath(text) ==
    LET cut == {k \in 1..Len(text) : text[k] \in {"?", "#"}}
    IN IF cut = {} THEN text
       ELSE SubSeq(text, 1, (CHOOSE k \in cut : \A l \in cut : k <= l) - 1)

\* The probe was answered with a status of the success class.
ProbeSucceeded(probe) == probe.kind = "http" /\ probe.status \in 200..299

\* C18 (as claimed): validate_pdf_url(url) is true exactly when the probe's
\* response indicates success and either its content type indicates a PDF or
\* the path of the URL ends in .pdf.
C18_ValidIffSuccessAndPdf ==
    vcall.returned =>
        (vcall.result <=>
           /\ ProbeSucceeded(vcall.probe)
           /\ \/ PdfInContentType(vcall.probe.ctype)
              \/ EndsWith(lower(UrlPath(Spelling[vcall.url])), DotPdf))

\* The backend's answer is a failure: a transport error or a timeout, a status
\* other than 200, or a body that does not parse.
Failing(resp) == resp.kind = "exception" \/ resp.status # HTTP_OK \/ ~resp.parsed

\* C19: each of the four strategies returns, it never raises, and what it
\* returns for a failing answer of its backend is None.
C19_FailureIsNone ==
    scall.returned =>
        /\ scall.result # Raised
        /\ Failing(scall.resp) => scall.result = None

\* The DOI lookup made its request, got a 200 response whose body does not
\* parse, and returned None.
C19_Witness ==
    /\ scall.returned
    /\ scall.m = NumMethods
    /\ HasDoi(scall.url)
    /\ scall.resp.status = HTTP_OK
    /\ ~scall.resp.parsed
    /\ scall.result = None

\* The document links of the answer that come with a title that passed
\* titles_similar against the citation's title.
MatchingLinks(m, url, resp) ==
    IF ~Answered(resp) THEN {}
    ELSE IF m < NumMethods
         THEN {resp.results[k].link :
                 k \in {l \in DOMAIN resp.results :
                          resp.results[l].sim /\ resp.results[l].link # NoLink}}
         ELSE IF HasDoi(url) /\ resp.sim /\ resp.is_oa /\ resp.loc # NoLink
              THEN {resp.loc} ELSE {}

\* C20 (as claimed): whichever of the four strategies is called, a URL it
\* returns is the document link of a result whose title passed the similarity
\* matcher, and it returns no URL when no matching result carries one.
C20_OnlyMatchingTitles ==
    scall.returned =>
        LET offered == MatchingLinks(scall.m, scall.url, scall.resp)
        IN /\ Truthy(scall.result) => scall.result \in offered
           /\ {x \in offered : Truthy(x)} = {} => ~Truthy(scall.result)

\* The same for the three search strategies only.
SearchesOnlyMatchingTitles == scall.m < NumMethods => C20_OnlyMatchingTitles

\* A text of the shape "10." + four or more digits + "/" + a suffix without
\* blanks.
DoiShaped(t) ==
    \E d \in MinRegistrantDigits..Len(t) :
        /\ Len(t) >= d + 5
        /\ SubSeq(t, 1, 3) = <<"1", "0", ".">>
        /\ \A j \in 4..(d + 3) : t[j] \in Digits
        /\ t[d + 4] = "/"
        /\ \A j \in (d + 5)..Len(t) : t[j] \notin Whitespace

\* The DOI-shaped substrings of s, as pairs of positions.
DoiSubstrings(s) ==
    {ij \in (1..Len(s)) \X (1..Len(s)) :
        ij[1] <= ij[2] /\ DoiShaped(SubSeq(s, ij[1], ij[2]))}

\* C21: resolve_doi_to_pdf on a source URL without a DOI-shaped substring
\* returns None and calls neither rate_limit nor the network; on a URL with
\* one, the DOI it looks up is that substring (the leftmost, taken as far as
\* it goes).
C21_DoiOrNothing ==
    (scall.returned /\ scall.m = NumMethods) =>
        LET s == Spelling[scall.url]
            shaped == DoiSubstrings(s)
        IN IF shaped = {}
           THEN scall.result = None /\ scall.calls = <<>> /\ scall.doi = <<>>
           ELSE /\ \E ij \in shaped :
                     /\ \A o \in shaped : ij[1] <= o[1] /\ (o[1] = ij[1] => o[2] <= ij[2])
                     /\ scall.doi = SubSeq(s, ij[1], ij[2])
                /\ \E k \in 1..Len(scall.calls) : scall.calls[k] = "request"

\* resolve_doi_to_pdf has returned from a URL whose registrant is too short to
\* be a DOI.
C21_Witness ==
    /\ scall.returned
    /\ scall.m = NumMethods
    /\ scall.url = ShortDoiUrl
    /\ scall.resp.kind = "http" /\ scall.resp.status = HTTP_OK
    /\ scall.calls = <<>>
    /\ scall.result = None

\* resolve_doi_to_pdf has looked up the DOI found between two blanks.
C21_WitnessLookup ==
    /\ scall.returned
    /\ scall.m = NumMethods
    /\ scall.url = SpacedDoiUrl
    /\ scall.doi = <<"1", "0", ".", "1", "1", "4", "5", "/", "3", "3", "4", "5", "6", "7", "8">>

\* C22: when the input file cannot be opened, is not JSON, or holds a record
\* that is no Paper, process_papers_file raises before any work: nothing is
\* submitted, no thread runs a resolution, no request is made and no output is
\* written.
C22_BadWorklistIsFatal ==
    ~(file_state = "readable" /\ \A i \in 1..Len(input) : Convertible(input[i])) =>
        /\ phase \in {"new", "raised"}
        /\ futs = <<>> /\ queue = <<>>
        /\ \A w \in WorkerIds : pc[w] = "idle"
        /\ seen = {}
        /\ output = <<>>

\* process_papers_file has raised on a file whose first record is a citation
\* without a document and whose second record is no Paper.
C22_Witness ==
    /\ phase = "raised"
    /\ file_state = "readable"
    /\ Len(input) = 2
    /\ Convertible(input[1]) /\ ~Truthy(Paper(input[1]).pdf)
    /\ ~Convertible(input[2])

\* The call for the i-th citation returned a document URL.
Resolved(i) ==
    \E j \in 1..Len(futs) :
        futs[j].paper = i /\ futs[j].exception = NoExc /\ Truthy(futs[j].result)

\* C23: the i-th output record has the title, year, venue, source URL and
\* citation count of the i-th input record; a document URL present on input is
\* written as it was; a record without one on input has one in the output iff
\* its call returned a URL.
C23_Frame ==
    phase = "done" =>
        /\ Len(output) = Len(input)
        /\ \A i \in 1..Len(input) :
             /\ SameCitation(output[i], input[i])
             /\ IF Truthy(InputPdf(i))
                THEN output[i].PDF = InputPdf(i)
                ELSE Truthy(output[i].PDF) <=> Resolved(i)

\* A run of two unresolved citations: the first call returned a URL, which is
\* in the output; the second did not, and its record has none.
C23_Witness ==
    /\ phase = "done"
    /\ Len(input) = 2
    /\ ~Truthy(InputPdf(1)) /\ Resolved(1) /\ Truthy(output[1].PDF)
    /\ ~Truthy(InputPdf(2)) /\ ~Resolved(2) /\ ~Truthy(output[2].PDF)

\* An iteration that did not end the call: the method raised or returned
\* nothing, or validate_pdf_url did not accept its candidate.
Fruitless(e) ==
    \/ e.value = Raised
    \/ ~Truthy(e.value)
    \/ e.ok \in {"no", Raised}

\* C24: within one call of find_pdf_for_paper the k-th method called is
\* search_methods[k - 1], so each is called at most once and in the order
\* Semantic Scholar, arXiv, CrossRef, DOI; a method is called only after the
\* one before it raised, returned nothing or had its candidate rejected; and
\* the call does not end after such an iteration while a method is left.
C24_InOrderOnFailure ==
    traced # 0 =>
        LET ev == hist.events
            n == Len(ev)
        IN /\ n <= 4
           /\ \A k \in 1..n : ev[k].m = k
           /\ \A k \in 1..(n - 1) : Fruitless(ev[k])
           /\ (IsDone(traced) /\ n >= 1 /\ Fruitless(ev[n])) => n = 4

\* The first method raised, the second returned nothing, the candidate of the
\* third was rejected, and the fourth was called and ended the call.
C24_Witness ==
    /\ traced = 1
    /\ IsDone(1)
    /\ Len(hist.events) = 4
    /\ hist.events[1].value = Raised
    /\ hist.events[2].value = None
    /\ Truthy(hist.events[3].value) /\ hist.events[3].ok = "no"
    /\ hist.events[4].ok = "yes"

\* The futures whose call returned a URL, and those whose call returned None or
\* raised, among the futures in js.
ReturnedUrl(js) == {j \in js : futs[j].exception = NoExc /\ Truthy(futs[j].result)}
CameToNothing(js) == js \ ReturnedUrl(js)

\* C25: at every moment of a batch run pdfs_found and pdfs_not_found count
\* exactly the futures collected so far, each once, whatever the threads are
\* doing; when the run is done every submitted future is collected, so the two
\* counters are the numbers of submitted citations whose call returned a URL,
\* and returned None or raised.
C25_NoLostUpdate ==
    phase \in {"run", "done"} =>
        /\ \A a, b \in 1..Len(yielded) : yielded[a] = yielded[b] => a = b
        /\ \A k \in 1..Len(yielded) : IsDone(yielded[k])
        /\ stats.pdfs_found = Cardinality(ReturnedUrl(Range(yielded)))
        /\ stats.pdfs_not_found = Cardinality(CameToNothing(Range(yielded)))
        /\ phase = "done" =>
             /\ stats.pdfs_found = Cardinality(ReturnedUrl(1..Len(futs)))
             /\ stats.pdfs_not_found = Cardinality(CameToNothing(1..Len(futs)))

\* Two threads ran two calls at once; one returned a URL, the other raised;
\* both are counted.
C25_Witness ==
    /\ phase = "done"
    /\ max_workers = 2
    /\ Len(futs) = 2
    /\ yielded = <<2, 1>>
    /\ Truthy(futs[1].result)
    /\ futs[2].exception # NoExc
    /\ stats.pdfs_found = 1 /\ stats.pdfs_not_found = 1

\* C26: in the calls one resolution makes, in order, every request (the four
\* strategies' GET and the validator's HEAD) comes right after a rate_limit()
\* of its own: no request is first, and no two requests follow each other.
C26_RateLimitBeforeRequest ==
    traced # 0 =>
        \A k \in 1..Len(hist.calls) :
            hist.calls[k] = "request" => (k > 1 /\ hist.calls[k - 1] = "rate_limit")

\* A resolution that made eight requests: four strategies, four probes.
C26_Witness ==
    /\ traced = 1
    /\ IsDone(1)
    /\ Len(hist.events) = 4
    /\ \A k \in 1..4 : hist.events[k].ok = "no"
    /\ Cardinality({k \in 1..Len(hist.calls) : hist.calls[k] = "request"}) = 8

\* C27: no exception leaves validate_pdf_url, and when the HEAD request raised
\* (connection error, timeout) the call returns False.
C27_ProbeFailureIsFalse ==
    vcall.returned =>
        /\ vcall.exc = NoExc
        /\ vcall.probe.kind = "exception" => vcall.result = FALSE

\* The HEAD request for a URL that ends in .pdf raised, and the call returned
\* False.
C27_Witness ==
    /\ vcall.returned
    /\ vcall.url = PdfUrl
    /\ vcall.probe.kind = "exception"
    /\ vcall.result = FALSE

\* The citations of the input without a document URL, in input order.
Unresolved == SelectSeq([i \in 1..Len(input) |-> i], LAMBDA i : ~Truthy(InputPdf(i)))

\* C28: the futures are submitted for the first min(100, number of unresolved)
\* unresolved citations, in input order, and for no other; once collection
\* has begun all of them are submitted; at the end the two result counters sum
\* to that number, and an unresolved citation past the 100th is written
\* without a document URL.
C28_FirstHundred ==
    phase \in {"run", "done"} =>
        LET unresolved == Unresolved
            quota == Min(100, Len(unresolved))
        IN /\ Len(futs) <= quota
           /\ \A j \in 1..Len(futs) : futs[j].paper = unresolved[j]
           /\ (yielded # <<>> \/ phase = "done") => Len(futs) = quota
           /\ phase = "done" =>
                /\ stats.pdfs_found + stats.pdfs_not_found = quota
                /\ \A k \in (quota + 1)..Len(unresolved) :
                     ~Truthy(output[unresolved[k]].PDF)

\* A run over 101 unresolved citations is done: 100 futures, 100 results
\* counted, and the 101st citation, which the scripted network would have
\* resolved, written without a document URL.
C28_Witness ==
    /\ phase = "done"
    /\ Len(Unresolved) = 101
    /\ Len(futs) = 100
    /\ stats.pdfs_found + stats.pdfs_not_found = 100
    /\ input[101].title = "t1"
    /\ Resolved(100) /\ input[100] = input[101]
    /\ output[101].PDF = None

\* The requests one resolution has made: each is a wait bounded by its timeout.
RequestsMade == Cardinality({k \in 1..Len(hist.calls) : hist.calls[k] = "request"})

\* C29 (as claimed): one resolution makes no more timeout-bounded waits than
\* there are strategies.
C29_OneWaitPerStrategy ==
    traced # 0 => RequestsMade <= NumMethods

\* C29 (amended): one resolution makes at most two timeout-bounded requests per
\* strategy called, the strategy's own and the validator's probe of its
\* candidate: no more than twice the number of strategies in all.
C29_TwoWaitsPerStrategy ==
    traced # 0 =>
        /\ RequestsMade <= 2 * NumMethods
        /\ RequestsMade <= 2 * Len(hist.events)

\* Every strategy returned a candidate and every probe rejected it: the
\* resolution returned None after eight requests.
C29_Witness ==
    /\ traced = 1
    /\ IsDone(1)
    /\ futs[1].result = None /\ futs[1].exception = NoExc
    /\ RequestsMade = 2 * NumMethods
    /\ hist.events[NumMethods].ok = "no"

\* Every future of the run is finished and collected, and the output is
\* written.
AllWritten ==
    /\ phase = "done"
    /\ Len(futs) = SubmitCount
    /\ \A j \in 1..Len(futs) : IsDone(j) /\ \E k \in 1..Len(yielded) : yielded[k] = j
    /\ Len(output) = Len(input)

\* C30: under fair scheduling, and every request returning or timing out, a
\* batch run ends: no resolution goes past the fourth strategy, every
\* submitted resolution finishes, the coordinator collects every result and
\* the output is written.
C30_Terminates ==
    /\ [](\A w \in WorkerIds : meth[w] <= NumMethods)
    /\ <>AllWritten

\* A run of two resolutions that both went through the four strategies in
\* vain has ended.
C30_Witness ==
    /\ AllWritten
    /\ Len(futs) = 2
    /\ \A j \in 1..2 : futs[j].result = None /\ futs[j].exception = NoExc
    /\ stats.pdfs_not_found = 2

\* The document URL of a record, under either spelling of the key.
DocumentUrl(d) ==
    IF "PDF" \in DOMAIN d THEN d.PDF
    ELSE IF "pdf" \in DOMAIN d THEN d.pdf ELSE None

\* C31 (as claimed): a run whose input is the output of the run before it
\* loads that input, submits no call for a record that carries a document URL,
\* and writes that URL again.
C31_RoundTrip ==
    run > 1 =>
        /\ phase # "raised"
        /\ phase \in {"run", "done"} =>
             /\ Len(papers) = Len(input)
             /\ \A i \in 1..Len(input) :
                  Truthy(DocumentUrl(input[i])) =>
                      /\ papers[i].pdf = DocumentUrl(input[i])
                      /\ \A j \in 1..Len(futs) : futs[j].paper # i

\* C32 (as claimed): a result whose reported title is the citation's title,
\* character for character, passes the similarity test of the search, the
\* title having at least one word.
C32_SameTitlePasses ==
    (gcall.returned /\ gcall.reported = gcall.title /\ HasWord(gcall.title)) =>
        gcall.result

\* The same holds of the titles without punctuation: what fails is the
\* punctuation.
C32_PlainTitlePasses ==
    (gcall.returned /\ gcall.reported = gcall.title /\ HasWord(gcall.title)
       /\ RemoveSpecial(gcall.title) = gcall.title) => gcall.result

\* An attempt that failed in one of the three ways the loop goes on from: a
\* status other than 200, a blank body, a RequestException.
FailedAttempt(p) ==
    \/ p.resp.kind = "RequestException"
    \/ p.resp.kind = "http" /\ (p.resp.status # 200 \/ IsBlank(p.resp.body))

\* C33: a call grobid_process(pdf, retry = r) that opened its file makes at
\* most r POSTs, none after one that did not fail; it returns exactly when the
\* last POST had status 200 and a body that is not blank, and returns that
\* body; it has slept once per failed POST; and it raises RuntimeError exactly
\* when it has made r POSTs and all of them failed.
C33_RetryLoop ==
    gp.pc \in {"loop", "returned", "raised"} /\ gp.exc # "OSError" =>
        LET n == Len(gp.posts)
            failed == {k \in 1..n : FailedAttempt(gp.posts[k])}
        IN /\ n <= gp.retry
           /\ \A k \in 1..(n - 1) : k \in failed
           /\ gp.sleeps = Cardinality(failed)
           /\ gp.pc = "returned" <=>
                (n >= 1 /\ gp.posts[n].resp.kind = "http" /\ gp.posts[n].resp.status = 200
                   /\ ~IsBlank(gp.posts[n].resp.body))
           /\ gp.pc = "returned" => gp.result = gp.posts[n].resp.body
           /\ gp.pc = "loop" => failed = 1..n
           /\ gp.pc \in {"returned", "raised"} =>
                (gp.exc = "RuntimeError" <=> (n = gp.retry /\ failed = 1..n))

\* The first POST came back blank, the second with a document: the call
\* returned it after one sleep.
C33_Witness ==
    /\ gp.pc = "returned"
    /\ gp.retry = 2
    /\ Len(gp.posts) = 2
    /\ gp.posts[1].resp.status = 200 /\ gp.posts[1].resp.body = BlankBody
    /\ gp.result = TeiTwoRefs
    /\ gp.sleeps = 1

\* Both POSTs failed, and the call raised RuntimeError after two sleeps.
C33_WitnessRaise ==
    /\ gp.pc = "raised" /\ gp.exc = "RuntimeError"
    /\ gp.retry = 2
    /\ Len(gp.posts) = 2
    /\ gp.posts[1].resp.kind = "RequestException"
    /\ gp.posts[2].resp.status = 503
    /\ gp.sleeps = 2

\* C34 (as claimed): every POST of a call of grobid_process uploads the whole
\* content of the PDF file.
C34_SameUpload ==
    \A k \in 1..Len(gp.posts) : gp.posts[k].upload = gp.content

\* What does hold: the first POST uploads the whole file, every later one
\* nothing.
C34_OnlyFirstUpload ==
    \A k \in 1..Len(gp.posts) :
        gp.posts[k].upload = IF k = 1 THEN gp.content ELSE <<>>

\* The PDFs main has got references from: grobid_process returned and the
\* document parsed.
SucceededPdfs == {rx.log[k].name : k \in {j \in 1..Len(rx.log) : rx.log[j].exc = NoExc}}

\* C35: a run of main on an existing directory is never ended by a PDF's
\* failure; the PDFs are taken in the order of their names, each once;
\* per_paper has an entry exactly for the PDFs that succeeded, flat_rows has
\* rows of those PDFs only, one per reference kept; and the run ends with
\* both collections written.
C35_FailureIsolated ==
    rx.pc \notin {"none", "start"} /\ rx.dir_exists =>
        /\ rx.pc # "raised"
        /\ Len(rx.log) = rx.i - 1
        /\ \A k \in 1..Len(rx.log) : rx.log[k].name = sorted(rx.dir)[k]
        /\ DOMAIN rx.per_paper = SucceededPdfs
        /\ \A k \in 1..Len(rx.flat_rows) : rx.flat_rows[k].source_pdf \in SucceededPdfs
        /\ \A name \in SucceededPdfs :
             Cardinality({k \in 1..Len(rx.flat_rows) : rx.flat_rows[k].source_pdf = name})
               = Len(rx.per_paper[name])
        /\ rx.pc = "done" =>
             /\ Len(rx.log) = Cardinality(rx.dir)
             /\ rx.out_json = rx.per_paper
             /\ rx.out_csv = rx.flat_rows

\* GROBID failed three times for the first PDF, the second gave two
\* references: the run ended with one entry and two rows written.
C35_Witness ==
    /\ rx.pc = "done"
    /\ Len(rx.log) = 2
    /\ rx.log[1].exc = "RuntimeError"
    /\ rx.log[2].exc = NoExc
    /\ DOMAIN rx.out_json = {"b.pdf"}
    /\ Len(rx.out_csv) = 2

====
